---------------------------- MODULE Spec2Model ----------------------------
(***************************************************************************)
(* A model of the heuristic resolution engine of google-meet-api-sample:   *)
(* the GoogleMeetAPI class (calendar correlation, transcript ranking,      *)
(* search cascade, content fetch) and the callers of it.                   *)
(*                                                                         *)
(* Conventions of the model                                                *)
(*  - JavaScript strings are TLA+ strings; TLC evaluates Len, \o and       *)
(*    SubSeq on them, and every string function below is built from these. *)
(*  - A missing optional string (undefined / null) is the value Undefined. *)
(*  - Times are whole minutes since an epoch; a missing or unparsable time *)
(*    (one whose Date is invalid, getTime() = NaN) is NoTime.              *)
(*  - Scores are fractions in the code (hours and days are divided out of  *)
(*    milliseconds).  The correlator's score is kept multiplied by 12      *)
(*    (5 points per hour = 1/12 point per minute) and the ranker's score   *)
(*    multiplied by 1440 (1 point per day = 1/1440 point per minute), so   *)
(*    that both are exact integers.                                        *)
(*  - Non-ASCII literals of the source are written with ASCII stand-ins    *)
(*    made of characters that no character class of the code treats        *)
(*    specially (see JaTranscript and the definitions next to it).         *)
(***************************************************************************)
EXTENDS Integers, Sequences, FiniteSets, TLC

VARIABLES
    op,     \* the operation of the request in flight
    args,   \* its arguments and the snapshots its collaborators return
    pc,     \* "called" while the operation runs, "returned" once it has ended
    ret     \* what it returned or raised (<<>> while it runs)

vars == <<op, args, pc, ret>>

\* ------------------------------------------------------------------------
\* Values
\* ------------------------------------------------------------------------

Undefined == "<undefined>"

NoTime == -1

\* JavaScript truthiness of an optional string: undefined, null and "" are falsy.
Truthy(s) == s # Undefined /\ s # ""

\* s || "" for an optional string
OrEmpty(s) == IF Truthy(s) THEN s ELSE ""

\* Stand-ins for the non-ASCII literals of the source.
JaTranscript == "{mojiokoshi}"
JaCopyOf == "{nokopii}"
JaGeminiMemo == "Gemini {niyorumemo}"
WaveDash == "~"
JaMeetingName == "Google Meet {kaigi}"

\* ------------------------------------------------------------------------
\* Strings
\* ------------------------------------------------------------------------

Digits == {"0", "1", "2", "3", "4", "5", "6", "7", "8", "9"}

LowerLetters ==
    {"a", "b", "c", "d", "e", "f", "g", "h", "i", "j", "k", "l", "m",
     "n", "o", "p", "q", "r", "s", "t", "u", "v", "w", "x", "y", "z"}

UpperLetters ==
    {"A", "B", "C", "D", "E", "F", "G", "H", "I", "J", "K", "L", "M",
     "N", "O", "P", "Q", "R", "S", "T", "U", "V", "W", "X", "Y", "Z"}

\* \s of the regular expressions, restricted to the white space a file or
\* event name can hold (no line breaks).
WhiteSpace == {" ", "\t", "\n", "\r"}

CharAt(s, i) == SubSeq(s, i, i)

Min(a, b) == IF a <= b THEN a ELSE b

Max(a, b) == IF a >= b THEN a ELSE b

Abs(a) == IF a >= 0 THEN a ELSE -a

\* s.substring(from - 1): the rest of s from position from (1-based)
From(s, from) == SubSeq(s, from, Len(s))

\* the text of s at position i is t
StartsAt(s, i, t) == i >= 1 /\ i + Len(t) - 1 <= Len(s) /\ SubSeq(s, i, i + Len(t) - 1) = t

\* String.prototype.includes
includes(s, t) == \E i \in 1..(Len(s) - Len(t) + 1) : StartsAt(s, i, t)

\* 1-based position of the first occurrence of t in s, 0 when there is none
indexOf(s, t) ==
    IF includes(s, t)
    THEN CHOOSE i \in 1..(Len(s) - Len(t) + 1) :
             StartsAt(s, i, t) /\ \A j \in 1..(i - 1) : ~StartsAt(s, j, t)
    ELSE 0

endsWith(s, t) == StartsAt(s, Len(s) - Len(t) + 1, t)

\* the lower-case letter of every upper-case letter
LowerMap ==
    [c \in UpperLetters |->
        CHOOSE l \in LowerLetters :
            \E k \in 1..26 : CharAt("ABCDEFGHIJKLMNOPQRSTUVWXYZ", k) = c
                          /\ CharAt("abcdefghijklmnopqrstuvwxyz", k) = l]

LowerOf(c) == IF c \in UpperLetters THEN LowerMap[c] ELSE c

RECURSIVE toLowerCase(_)
\* String.prototype.toLowerCase
toLowerCase(s) ==
    IF Len(s) = 0 THEN "" ELSE LowerOf(CharAt(s, 1)) \o toLowerCase(From(s, 2))

RECURSIVE RunLen(_, _, _)
\* the number of consecutive characters of s from position i that are in class
RunLen(s, i, class) ==
    IF i <= Len(s) /\ CharAt(s, i) \in class THEN 1 + RunLen(s, i + 1, class) ELSE 0

\* String.prototype.trim
trim(s) ==
    LET lead == RunLen(s, 1, WhiteSpace)
        rest == From(s, lead + 1)
        last == IF \E i \in 1..Len(rest) : CharAt(rest, i) \notin WhiteSpace
                THEN CHOOSE i \in 1..Len(rest) :
                         /\ CharAt(rest, i) \notin WhiteSpace
                         /\ \A j \in (i + 1)..Len(rest) : CharAt(rest, j) \in WhiteSpace
                ELSE 0
    IN  SubSeq(rest, 1, last)

RECURSIVE SplitFrom(_, _, _, _)
\* s.split(/[class]+/) from position i with the current piece cur
SplitFrom(s, i, cur, class) ==
    IF i > Len(s) THEN <<cur>>
    ELSE IF CharAt(s, i) \in class
         THEN <<cur>> \o SplitFrom(s, i + RunLen(s, i, class), "", class)
         ELSE SplitFrom(s, i + 1, cur \o CharAt(s, i), class)

\* String.prototype.split with a separator that is one or more characters of class
split(s, class) == SplitFrom(s, 1, "", class)

RECURSIVE CollapseFrom(_, _, _)
\* s.replace(/[class]+/g, ' ') from position i
CollapseFrom(s, i, class) ==
    IF i > Len(s) THEN ""
    ELSE IF CharAt(s, i) \in class
         THEN " " \o CollapseFrom(s, i + RunLen(s, i, class), class)
         ELSE CharAt(s, i) \o CollapseFrom(s, i + 1, class)


\* ------------------------------------------------------------------------
\* Name Normalizer, Similarity Scorer (README.md: the listing of
\* lib/google-meet-api.ts with calendar correlation)
\* ------------------------------------------------------------------------

\* The length of the match of /\d{4}\/\d{1,2}\/\d{1,2}\s+\d{1,2}:\d{2}\s+JST/
\* that starts at position i of s, 0 when it does not match there.  Every
\* digit group is followed by a non-digit and every \s+ by a non-space, so
\* each group is a maximal run.
DateStampLen(s, i) ==
    LET y  == RunLen(s, i, Digits)
        p1 == i + y
        mo == RunLen(s, p1 + 1, Digits)
        p2 == p1 + 1 + mo
        d  == RunLen(s, p2 + 1, Digits)
        p3 == p2 + 1 + d
        w1 == RunLen(s, p3, WhiteSpace)
        p4 == p3 + w1
        h  == RunLen(s, p4, Digits)
        p5 == p4 + h
        mi == RunLen(s, p5 + 1, Digits)
        p6 == p5 + 1 + mi
        w2 == RunLen(s, p6, WhiteSpace)
        p7 == p6 + w2
    IN  IF /\ y = 4 /\ StartsAt(s, p1, "/")
           /\ mo \in 1..2 /\ StartsAt(s, p2, "/")
           /\ d \in 1..2 /\ w1 >= 1
           /\ h \in 1..2 /\ StartsAt(s, p5, ":")
           /\ mi = 2 /\ w2 >= 1
           /\ StartsAt(s, p7, "JST")
        THEN p7 + 3 - i
        ELSE 0

RECURSIVE RemoveDateStamps(_, _)
\* s.replace(/\d{4}\/\d{1,2}\/\d{1,2}\s+\d{1,2}:\d{2}\s+JST/g, '') from position i
RemoveDateStamps(s, i) ==
    IF i > Len(s) THEN ""
    ELSE IF DateStampLen(s, i) > 0
         THEN RemoveDateStamps(s, i + DateStampLen(s, i))
         ELSE CharAt(s, i) \o RemoveDateStamps(s, i + 1)

\* s.replace(/<pattern>.*$/g, ''), starts being the positions of s where the
\* pattern matches: s is cut at the first of them
CutAtFirst(s, starts) ==
    IF starts = {} THEN s
    ELSE SubSeq(s, 1, (CHOOSE i \in starts : \A j \in starts : i <= j) - 1)

\* s.replace(/\.(ext1|ext2|...)$/i, '')
StripExtension(s, exts) ==
    IF \E e \in exts : endsWith(toLowerCase(s), "." \o e)
    THEN LET e == CHOOSE x \in exts : endsWith(toLowerCase(s), "." \o x)
         IN  SubSeq(s, 1, Len(s) - Len(e) - 1)
    ELSE s

\* the positions of s where /~(Chat|Recording|Gemini ...)/ matches
TypeSuffixStarts(s) ==
    {i \in 1..Len(s) :
        /\ StartsAt(s, i, WaveDash)
        /\ \/ StartsAt(s, i + 1, "Chat")
           \/ StartsAt(s, i + 1, "Recording")
           \/ StartsAt(s, i + 1, JaGeminiMemo)}

\* the positions of s where /\s+<copy marker>/ matches
CopyMarkerStarts(s) ==
    {i \in 1..Len(s) :
        /\ CharAt(s, i) \in WhiteSpace
        /\ StartsAt(s, i + RunLen(s, i, WhiteSpace), JaCopyOf)}

\* the two suffix replacements of extractMeetingBaseName, in their order
StripTypeSuffix(s) == CutAtFirst(s, TypeSuffixStarts(s))

StripCopyMarker(s) == CutAtFirst(s, CopyMarkerStarts(s))

extractMeetingBaseName(fileName) ==
    trim(CollapseFrom(
        StripExtension(
            StripCopyMarker(StripTypeSuffix(RemoveDateStamps(fileName, 1))),
            {"pdf", "doc", "docx", "txt"}),
        1, WhiteSpace))

\* the separators of countCommonWords' split: /[\s\/\-_]+/
WordSeparators == WhiteSpace \cup {"/", "-", "_"}

\* word.length > 1 && !word.match(/^[\d\-_\/]+$/)
IsMeaningfulWord(word) ==
    /\ Len(word) > 1
    /\ ~(\A i \in 1..Len(word) : CharAt(word, i) \in Digits \cup {"-", "_", "/"})

\* a reading in which only the leading three characters of two words are compared
WordsInCommon_PrefixOnly(word1, word2) ==
    \/ includes(word1, word2)
    \/ includes(word2, word1)
    \/ /\ Len(word1) > 2
       /\ Len(word2) > 2
       /\ SubSeq(word1, 1, 3) = SubSeq(word2, 1, 3)

\* the predicate of words2.some(...) in countCommonWords
WordsInCommon(word1, word2) ==
    \/ includes(word1, word2)
    \/ includes(word2, word1)
    \/ /\ Len(word1) > 2
       /\ Len(word2) > 2
       /\ \/ includes(word1, SubSeq(word2, 1, 3))
          \/ includes(word2, SubSeq(word1, 1, 3))

countCommonWords(str1, str2) ==
    LET words1 == SelectSeq(split(str1, WordSeparators), IsMeaningfulWord)
        words2 == SelectSeq(split(str2, WordSeparators), IsMeaningfulWord)
    IN  Cardinality({i \in 1..Len(words1) :
                        \E j \in 1..Len(words2) : WordsInCommon(words1[i], words2[j])})


\* ------------------------------------------------------------------------
\* Calendar Correlator
\*
\* A calendar event is a record
\*   [id, summary, description : optional strings,
\*    start : the minutes of start.dateTime, NoTime when there is none,
\*    conferenceData : <<>> when absent, else <<[entryPoints |-> a sequence
\*                     of [entryPointType, uri]]>>]
\* A meeting is a record [id, name, createdTime, meetingCode].
\* ------------------------------------------------------------------------

\* entry.entryPointType === "video" && entry.uri?.includes("meet.google.com")
IsMeetEntryPoint(entry) ==
    /\ entry.entryPointType = "video"
    /\ entry.uri # Undefined
    /\ includes(entry.uri, "meet.google.com")

hasGoogleMeetLink(event) ==
    \/ /\ event.conferenceData # <<>>
       /\ \E k \in 1..Len(event.conferenceData[1].entryPoints) :
              IsMeetEntryPoint(event.conferenceData[1].entryPoints[k])
    \/ /\ Truthy(event.description)
       /\ includes(event.description, "meet.google.com")

\* Mutant of CodePoints12: the code match is worth 40 points.
CodePoints12_Weak(meeting, event) ==
    IF /\ Truthy(meeting.meetingCode)
       /\ Truthy(event.description)
       /\ includes(event.description, meeting.meetingCode)
    THEN 40 * 12
    ELSE 0

\* 1. the meeting code is found in the event's description: +100
CodePoints12(meeting, event) ==
    IF /\ Truthy(meeting.meetingCode)
       /\ Truthy(event.description)
       /\ includes(event.description, meeting.meetingCode)
    THEN 100 * 12
    ELSE 0

\* Mutant of TimePoints12: there is no limit of 6 hours.
TimePoints12_NoWindow(meeting, event) ==
    IF event.start # NoTime /\ meeting.createdTime # NoTime
    THEN Max(0, 50 * 12 - Abs(event.start - meeting.createdTime))
    ELSE 0

\* 2. start within 6 hours of the meeting's creation: + max(0, 50 - hoursDiff * 5).
\* An invalid meeting time makes hoursDiff NaN, and NaN <= 6 is false.
TimePoints12(meeting, event) ==
    IF event.start # NoTime /\ meeting.createdTime # NoTime
    THEN LET timeDiff == Abs(event.start - meeting.createdTime)
         IN  IF timeDiff <= 6 * 60 THEN Max(0, 50 * 12 - timeDiff) ELSE 0
    ELSE 0

\* Mutant of NamePoints12: the common words count on top of a partial match.
NamePoints12_Cumulative(cleanMeetingName, event) ==
    IF Truthy(event.summary) /\ Truthy(cleanMeetingName)
    THEN LET eventName == toLowerCase(event.summary)
             meetingNameLower == toLowerCase(cleanMeetingName)
         IN  IF eventName = meetingNameLower THEN 80 * 12
             ELSE (IF \/ includes(eventName, meetingNameLower)
                      \/ includes(meetingNameLower, eventName)
                   THEN 60 * 12
                   ELSE 0)
                  + countCommonWords(meetingNameLower, eventName) * 10 * 12
    ELSE 0

\* 3. similarity of the cleaned meeting name and the event's summary
NamePoints12(cleanMeetingName, event) ==
    IF Truthy(event.summary) /\ Truthy(cleanMeetingName)
    THEN LET eventName == toLowerCase(event.summary)
             meetingNameLower == toLowerCase(cleanMeetingName)
         IN  IF eventName = meetingNameLower THEN 80 * 12
             ELSE IF \/ includes(eventName, meetingNameLower)
                     \/ includes(meetingNameLower, eventName)
                  THEN 60 * 12
                  ELSE countCommonWords(meetingNameLower, eventName) * 10 * 12
    ELSE 0

\* 4. the event has a Google Meet link: +10
LinkPoints12(event) == IF hasGoogleMeetLink(event) THEN 10 * 12 ELSE 0

\* matchScore of one pass of the loop of findMatchingCalendarEvent, times 12
matchScore12(meeting, event) ==
    CodePoints12(meeting, event)
    + TimePoints12(meeting, event)
    + NamePoints12(extractMeetingBaseName(meeting.name), event)
    + LinkPoints12(event)

\* Mutant of IsSufficientMatch: the logging threshold (30) decides.
IsSufficientMatch_Potential(meeting, event) == matchScore12(meeting, event) >= 30 * 12

\* matchScore >= 50: the event is returned
IsSufficientMatch(meeting, event) == matchScore12(meeting, event) >= 50 * 12

RECURSIVE MatchFrom(_, _, _)
\* the for loop of findMatchingCalendarEvent from the event at position k
MatchFrom(meeting, events, k) ==
    IF k > Len(events) THEN 0
    ELSE IF IsSufficientMatch(meeting, events[k]) THEN k
         ELSE MatchFrom(meeting, events, k + 1)

\* Mutant of findMatchingCalendarEvent: the best-scoring sufficient event wins.
findMatchingCalendarEvent_Best(meeting, events) ==
    IF \E k \in 1..Len(events) : IsSufficientMatch(meeting, events[k])
    THEN CHOOSE k \in 1..Len(events) :
             /\ \A j \in 1..Len(events) :
                    matchScore12(meeting, events[j]) <= matchScore12(meeting, events[k])
             /\ \A j \in 1..(k - 1) :
                    matchScore12(meeting, events[j]) < matchScore12(meeting, events[k])
    ELSE 0

\* The position in events of the event returned, 0 for null.
findMatchingCalendarEvent(meeting, events) == MatchFrom(meeting, events, 1)


\* ------------------------------------------------------------------------
\* Transcript Candidate Ranker
\*
\* A Drive file is a record
\*   [id, name, mimeType : optional strings,
\*    createdTime : minutes, NoTime when there is none,
\*    parents : the sequence of parent folder ids, <<>> when there is none]
\* An optional file (meetingFile, a returned file) is <<>> for null and <<f>>
\* for the file f.
\* ------------------------------------------------------------------------

GoogleDoc == "application/vnd.google-apps.document"

PlainText == "text/plain"

WordDoc == "application/vnd.openxmlformats-officedocument.wordprocessingml.document"

\* [\s\-_] of extractBaseName and generateMeetingName
NameSeparators == WhiteSpace \cup {"-", "_"}

\* the alternatives of /^(Meeting|Google Meet|Meet|Recording)[\s\-_]*/i, in order
BaseNamePrefixes == <<"meeting", "google meet", "meet", "recording">>

\* s.replace(/^(p1|p2|...)[\s\-_]*/i, ""): the first alternative that matches
\* at the start is removed with the separators that follow it
StripPrefix(s, prefixes) ==
    IF \E k \in 1..Len(prefixes) : StartsAt(toLowerCase(s), 1, prefixes[k])
    THEN LET k == CHOOSE n \in 1..Len(prefixes) :
                      /\ StartsAt(toLowerCase(s), 1, prefixes[n])
                      /\ \A j \in 1..(n - 1) : ~StartsAt(toLowerCase(s), 1, prefixes[j])
         IN  From(s, Len(prefixes[k]) + 1 + RunLen(s, Len(prefixes[k]) + 1, NameSeparators))
    ELSE s

\* s.split(" ")[0]
FirstWord(s) == IF includes(s, " ") THEN SubSeq(s, 1, indexOf(s, " ") - 1) ELSE s

extractBaseName(fileName) ==
    trim(FirstWord(CollapseFrom(
        StripPrefix(
            StripExtension(fileName, {"mp4", "webm", "txt", "doc", "docx", "pdf"}),
            BaseNamePrefixes),
        1, NameSeparators)))

\* new Date(t).toDateString(): the calendar day of a time (the server's zone
\* taken as the zone the minutes are counted in)
toDateString(t) == t \div (24 * 60)

\* Mutant of KeywordPoints: the file name earns nothing.
KeywordPoints_None(file) == 0

\* points for the keywords of the lower-cased file name
KeywordPoints(file) ==
    (IF includes(toLowerCase(OrEmpty(file.name)), "transcript") THEN 10 ELSE 0)
    + (IF includes(toLowerCase(OrEmpty(file.name)), JaTranscript) THEN 10 ELSE 0)
    + (IF includes(toLowerCase(OrEmpty(file.name)), "meeting") THEN 5 ELSE 0)

\* Mutant of TypePoints: the points of the two types are exchanged.
TypePoints_Exchanged(file) ==
    (IF file.mimeType = GoogleDoc THEN 2 ELSE 0)
    + (IF file.mimeType = PlainText THEN 3 ELSE 0)

\* points for the MIME type
TypePoints(file) ==
    (IF file.mimeType = GoogleDoc THEN 3 ELSE 0)
    + (IF file.mimeType = PlainText THEN 2 ELSE 0)

\* Mutant of RecencyPoints1440: a file without a creation time counts as
\* created at the time of the call.
RecencyPoints1440_MissingAsNow(file, now) ==
    IF file.createdTime # NoTime
    THEN Max(0, 10 * 24 * 60 - (now - file.createdTime))
    ELSE 10 * 24 * 60

\* Mutant of RecencyPoints1440: the bonus is not held at 0 for old files.
RecencyPoints1440_Unclamped(file, now) ==
    IF file.createdTime # NoTime
    THEN 10 * 24 * 60 - (now - file.createdTime)
    ELSE 0

\* Mutant of RecencyPoints1440: the bonus ends after 7 days.
RecencyPoints1440_Week(file, now) ==
    IF file.createdTime # NoTime
    THEN Max(0, 7 * 24 * 60 - (now - file.createdTime))
    ELSE 0

\* Math.max(0, 10 - daysSinceCreation), times 1440
RecencyPoints1440(file, now) ==
    IF file.createdTime # NoTime
    THEN Max(0, 10 * 24 * 60 - (now - file.createdTime))
    ELSE 0

\* file.parents.some(p => meetingFile.parents.includes(p)): +15
FolderPoints(file, anchor) ==
    IF \E i \in 1..Len(file.parents), j \in 1..Len(anchor.parents) :
           file.parents[i] = anchor.parents[j]
    THEN 15
    ELSE 0

\* the file name contains the meeting file's base name: +8
BaseNamePoints(file, anchor) ==
    IF /\ Truthy(anchor.name)
       /\ Truthy(extractBaseName(anchor.name))
       /\ includes(toLowerCase(OrEmpty(file.name)),
                   toLowerCase(extractBaseName(anchor.name)))
    THEN 8
    ELSE 0

\* created on the same day as the meeting file: +5
SameDayPoints(file, anchor) ==
    IF /\ file.createdTime # NoTime
       /\ anchor.createdTime # NoTime
       /\ toDateString(file.createdTime) = toDateString(anchor.createdTime)
    THEN 5
    ELSE 0

\* the points that depend on the meeting file
AnchorPoints(file, meetingFile) ==
    IF meetingFile # <<>>
    THEN FolderPoints(file, meetingFile[1])
         + BaseNamePoints(file, meetingFile[1])
         + SameDayPoints(file, meetingFile[1])
    ELSE 0

\* calculateRelevanceScore, times 1440; now is Date.now()
calculateRelevanceScore1440(file, meetingFile, now) ==
    (KeywordPoints(file) + TypePoints(file) + AnchorPoints(file, meetingFile)) * 24 * 60
    + RecencyPoints1440(file, now)

\* Mutant of InsertByScore: an item goes before the items of equal score.
InsertByScore_Unstable(sorted, item) ==
    LET before == SelectSeq(sorted, LAMBDA x : x.score > item.score)
        after == SelectSeq(sorted, LAMBDA x : x.score <= item.score)
    IN  before \o <<item>> \o after

\* One step of the stable sort by (a, b) => b.score - a.score: item, which
\* follows the items of sorted in the input, goes after every item whose score
\* is at least its own.
InsertByScore(sorted, item) ==
    LET before == SelectSeq(sorted, LAMBDA x : x.score >= item.score)
        after == SelectSeq(sorted, LAMBDA x : x.score < item.score)
    IN  before \o <<item>> \o after

RECURSIVE SortByScore(_, _)
\* scoredFiles.sort((a, b) => b.score - a.score) of the first n items
SortByScore(scoredFiles, n) ==
    IF n = 0 THEN <<>>
    ELSE InsertByScore(SortByScore(scoredFiles, n - 1), scoredFiles[n])

\* files.map(file => ({file, score}))
ScoredFiles(files, meetingFile, now) ==
    [i \in 1..Len(files) |->
        [file |-> files[i],
         score |-> calculateRelevanceScore1440(files[i], meetingFile, now)]]

selectBestTranscriptFile(files, meetingFile, now) ==
    IF Len(files) = 0 THEN <<>>
    ELSE <<SortByScore(ScoredFiles(files, meetingFile, now), Len(files))[1].file>>

\* ------------------------------------------------------------------------
\* Transcript resolution: getTranscript (README.md listing and
\* lib/google-meet-api.ts), fetchFileContent, getAllTranscripts
\* ------------------------------------------------------------------------
\* Google Drive is an input of the request, args.drive:
\*   meeting  the answer of files.get for the meeting file: <<>> when the
\*            call fails (meetingFile stays null), else <<file>>;
\*   list     the answer of files.list for each query: "single" (the one
\*            query of the README getTranscript), "folder", "name", "global",
\*            "broad" (the four strategies);
\*   export, media   the answer of files.export and of files.get(alt: media).
\* An answer is [ok, ...]: ok = FALSE when the call rejects.  The optional
\* list response.data.files is <<>> (undefined) or <<files>>.
\* modifiedTime, size and webViewLink of a file are copied to the result
\* without a decision depending on them; the records leave them out.

\* a rejected call
Failed == [ok |-> FALSE, files |-> <<>>, data |-> Undefined]

\* a list answer with the files field
Listed(files) == [ok |-> TRUE, files |-> <<files>>]

\* a list answer without the files field
NoFilesField == [ok |-> TRUE, files |-> <<>>]

\* a content answer
Content(data) == [ok |-> TRUE, data |-> data]

\* response.data.files || []
FilesOf(response) ==
    IF response.ok /\ response.files # <<>> THEN response.files[1] ELSE <<>>

\* uniqueFiles.slice(0, 10)
MaxTranscripts == 10

\* `${x}` of an optional string
TemplateText(s) == IF s = Undefined THEN "undefined" ELSE s

\* the Transcript built from a file and its content
MakeTranscript(file, content) ==
    [id |-> OrEmpty(file.id),
     name |-> OrEmpty(file.name),
     createdTime |-> file.createdTime,
     downloadLink |-> "https://drive.google.com/uc?id=" \o TemplateText(file.id),
     content |-> content]

\* Mutant of NoTranscript: absence is reported as an error.
NoTranscript_Throws(queries) ==
    [kind |-> "error", value |-> <<>>, queries |-> queries, selected |-> <<>>]

\* return null
NoTranscript(queries) ==
    [kind |-> "null", value |-> <<>>, queries |-> queries, selected |-> <<>>]

\* throw new Error("Failed to fetch transcript(s): ...")
Thrown(queries) ==
    [kind |-> "error", value |-> <<>>, queries |-> queries, selected |-> <<>>]

\* return {id, name, ..., content}; selected records the file chosen
Found(file, content, queries) ==
    [kind |-> "value", value |-> <<MakeTranscript(file, content)>>,
     queries |-> queries, selected |-> <<file>>]

\* the content call made for a file: export for a Google document, else get
ContentCall(file) == IF file.mimeType = GoogleDoc THEN "export" ELSE "media"

\* the answer to the content call made for a file
ContentAnswer(file, drive) ==
    IF file.mimeType = GoogleDoc THEN drive.export ELSE drive.media

\* Mutant of fetchFileContent: the catch returns nothing.
fetchFileContent_NoDefault(file, drive) ==
    IF ContentAnswer(file, drive).ok
    THEN ContentAnswer(file, drive).data
    ELSE Undefined

\* fetchFileContent: the data of the answer; "" when the call rejects or
\* when content.length throws because the data is undefined
fetchFileContent(file, drive) ==
    IF ContentAnswer(file, drive).ok /\ ContentAnswer(file, drive).data # Undefined
    THEN ContentAnswer(file, drive).data
    ELSE ""

\* getTranscript of the README.md listing: one query, the ranker, the fetcher
getTranscript(drive, now) ==
    IF ~drive.list.single.ok THEN Thrown(<<"single">>)
    ELSE IF Len(FilesOf(drive.list.single)) = 0 THEN NoTranscript(<<"single">>)
    ELSE IF selectBestTranscriptFile(FilesOf(drive.list.single), drive.meeting, now) = <<>>
    THEN NoTranscript(<<"single", "meeting">>)
    ELSE Found(selectBestTranscriptFile(FilesOf(drive.list.single), drive.meeting, now)[1],
               fetchFileContent(
                   selectBestTranscriptFile(FilesOf(drive.list.single), drive.meeting, now)[1],
                   drive),
               <<"single", "meeting",
                 ContentCall(selectBestTranscriptFile(
                     FilesOf(drive.list.single), drive.meeting, now)[1])>>)

\* the first position of qs whose query rejects, 0 when none does
FirstFailure(qs, drive) ==
    IF \E i \in 1..Len(qs) : ~drive.list[qs[i]].ok
    THEN CHOOSE i \in 1..Len(qs) :
             /\ ~drive.list[qs[i]].ok
             /\ \A j \in 1..(i - 1) : drive.list[qs[j]].ok
    ELSE 0

\* the queries made of qs: all, or up to the one that rejects
Made(qs, drive) ==
    IF FirstFailure(qs, drive) = 0 THEN qs ELSE SubSeq(qs, 1, FirstFailure(qs, drive))

\* strategy 1 is tried: the meeting file is known and has a parent folder
AsksFolder(drive) ==
    drive.meeting # <<>> /\ Len(drive.meeting[1].parents) > 0

\* the filter of strategy 4
IsTranscriptLike(file) ==
    /\ Truthy(file.name)
    /\ \/ includes(toLowerCase(file.name), "transcript")
       \/ includes(file.name, JaTranscript)
       \/ /\ includes(toLowerCase(file.name), "meeting")
          /\ file.mimeType \in {PlainText, GoogleDoc, WordDoc}

\* a.createdTime ? new Date(a.createdTime).getTime() : 0
TimeOrZero(file) == IF file.createdTime # NoTime THEN file.createdTime ELSE 0

\* Mutant of TimeDistance: the difference without Math.abs.
TimeDistance_Signed(file, meetingTime) == TimeOrZero(file) - meetingTime

\* Math.abs(aTime - meetingTime)
TimeDistance(file, meetingTime) == Abs(TimeOrZero(file) - meetingTime)

\* One step of the stable sort by distance to the meeting time: item goes
\* after every file that is at most as far as it.
InsertByDistance(sorted, item, meetingTime) ==
    SelectSeq(sorted, LAMBDA x : TimeDistance(x, meetingTime) <= TimeDistance(item, meetingTime))
    \o <<item>>
    \o SelectSeq(sorted, LAMBDA x : TimeDistance(x, meetingTime) > TimeDistance(item, meetingTime))

RECURSIVE SortByDistance(_, _, _)
\* files.sort((a, b) => |aTime - meetingTime| - |bTime - meetingTime|) of the
\* first n files
SortByDistance(files, n, meetingTime) ==
    IF n = 0 THEN <<>>
    ELSE InsertByDistance(SortByDistance(files, n - 1, meetingTime), files[n], meetingTime)

\* --- getTranscript of lib/google-meet-api.ts: four strategies in turn ---

FolderHit(drive) == AsksFolder(drive) /\ Len(FilesOf(drive.list.folder)) > 0

StrategyAsksName(drive) == ~FolderHit(drive) /\ drive.meeting # <<>>

NameHit(drive) ==
    /\ StrategyAsksName(drive)
    /\ Len(FilesOf(drive.list.name)) > 0
    /\ drive.meeting[1].createdTime # NoTime

StrategyAsksGlobal(drive) == ~FolderHit(drive) /\ ~NameHit(drive)

GlobalHit(drive) == StrategyAsksGlobal(drive) /\ Len(FilesOf(drive.list.global)) > 0

StrategyAsksBroad(drive) == StrategyAsksGlobal(drive) /\ ~GlobalHit(drive)

BroadHit(drive) ==
    /\ StrategyAsksBroad(drive)
    /\ Len(SelectSeq(FilesOf(drive.list.broad), IsTranscriptLike)) > 0

\* the list queries of the four strategies, in the order they are made when
\* none rejects
StrategyQueries(drive) ==
    (IF AsksFolder(drive) THEN <<"folder">> ELSE <<>>)
    \o (IF StrategyAsksName(drive) THEN <<"name">> ELSE <<>>)
    \o (IF StrategyAsksGlobal(drive) THEN <<"global">> ELSE <<>>)
    \o (IF StrategyAsksBroad(drive) THEN <<"broad">> ELSE <<>>)

\* transcriptFile after the four strategies: <<>> for null
transcriptFile(drive) ==
    IF FolderHit(drive) THEN <<FilesOf(drive.list.folder)[1]>>
    ELSE IF NameHit(drive)
    THEN <<SortByDistance(FilesOf(drive.list.name), Len(FilesOf(drive.list.name)),
                          drive.meeting[1].createdTime)[1]>>
    ELSE IF GlobalHit(drive) THEN <<FilesOf(drive.list.global)[1]>>
    ELSE IF BroadHit(drive)
    THEN <<SelectSeq(FilesOf(drive.list.broad), IsTranscriptLike)[1]>>
    ELSE <<>>

\* the content block of getTranscript: content = "" in the catch, and when
\* content.length throws because the data is undefined
InlineContent(file, drive) ==
    IF ContentAnswer(file, drive).ok /\ ContentAnswer(file, drive).data # Undefined
    THEN ContentAnswer(file, drive).data
    ELSE ""

getTranscriptByStrategies(drive) ==
    IF FirstFailure(StrategyQueries(drive), drive) # 0
    THEN Thrown(<<"meeting">> \o Made(StrategyQueries(drive), drive))
    ELSE IF transcriptFile(drive) = <<>>
    THEN NoTranscript(<<"meeting">> \o StrategyQueries(drive))
    ELSE Found(transcriptFile(drive)[1],
               InlineContent(transcriptFile(drive)[1], drive),
               <<"meeting">> \o StrategyQueries(drive)
                   \o <<ContentCall(transcriptFile(drive)[1])>>)

\* --- getAllTranscripts (the same in both listings) ---

\* strategy 2 is tried: the meeting file is known
AsksName(drive) == drive.meeting # <<>>

\* allFiles after strategies 1 and 2: the two answers concatenated
FolderAndNameFiles(drive) ==
    (IF AsksFolder(drive) THEN FilesOf(drive.list.folder) ELSE <<>>)
    \o (IF AsksName(drive) THEN FilesOf(drive.list.name) ELSE <<>>)

\* Mutant of AsksGlobal: strategy 3 is always tried.
AsksGlobal_Always(drive) == TRUE

\* strategy 3 is tried: allFiles.length === 0
AsksGlobal(drive) == Len(FolderAndNameFiles(drive)) = 0

AsksBroad(drive) == AsksGlobal(drive) /\ Len(FilesOf(drive.list.global)) = 0

\* the list queries of getAllTranscripts, in the order they are made when
\* none rejects
AllQueries(drive) ==
    (IF AsksFolder(drive) THEN <<"folder">> ELSE <<>>)
    \o (IF AsksName(drive) THEN <<"name">> ELSE <<>>)
    \o (IF AsksGlobal(drive) THEN <<"global">> ELSE <<>>)
    \o (IF AsksBroad(drive) THEN <<"broad">> ELSE <<>>)

\* allFiles after the four strategies
allFiles(drive) ==
    IF ~AsksGlobal(drive) THEN FolderAndNameFiles(drive)
    ELSE IF ~AsksBroad(drive) THEN FilesOf(drive.list.global)
    ELSE SelectSeq(FilesOf(drive.list.broad), IsTranscriptLike)

\* Mutant of IsFirstWithId: the last file of an id is the one kept.
IsFirstWithId_Last(files, index) ==
    \A j \in (index + 1)..Len(files) : files[j].id # files[index].id

\* self.findIndex(f => f.id === file.id) === index
IsFirstWithId(files, index) ==
    \A j \in 1..(index - 1) : files[j].id # files[index].id

RECURSIVE FilterFirstWithId(_, _)
\* the files of positions index.. that the filter keeps
FilterFirstWithId(files, index) ==
    IF index > Len(files) THEN <<>>
    ELSE (IF IsFirstWithId(files, index) THEN <<files[index]>> ELSE <<>>)
         \o FilterFirstWithId(files, index + 1)

\* uniqueFiles before the sort
uniqueFiles(drive) == FilterFirstWithId(allFiles(drive), 1)

\* uniqueFiles after the sort, which is made only when the meeting file has a
\* creation time
sortedFiles(drive) ==
    IF drive.meeting # <<>> /\ drive.meeting[1].createdTime # NoTime
    THEN SortByDistance(uniqueFiles(drive), Len(uniqueFiles(drive)),
                        drive.meeting[1].createdTime)
    ELSE uniqueFiles(drive)

\* uniqueFiles.slice(0, 10)
slicedFiles(drive) ==
    SubSeq(sortedFiles(drive), 1, Min(MaxTranscripts, Len(sortedFiles(drive))))

\* Mutant of EntryContent: the content of every entry with an id is fetched.
EntryContent_EveryEntry(file, position, drive) ==
    IF Truthy(file.id) /\ ContentAnswer(file, drive).ok
    THEN ContentAnswer(file, drive).data
    ELSE Undefined

\* content of the entry at index (0-based index 0 is position 1): fetched for
\* the first entry when it has an id, left undefined when the call rejects
EntryContent(file, position, drive) ==
    IF position = 1 /\ Truthy(file.id) /\ ContentAnswer(file, drive).ok
    THEN ContentAnswer(file, drive).data
    ELSE Undefined

\* the content call of getAllTranscripts, if one is made
EntryContentCalls(files) ==
    IF Len(files) > 0 /\ Truthy(files[1].id) THEN <<ContentCall(files[1])>> ELSE <<>>

\* getAllTranscripts; pool, unique and ranked record allFiles, uniqueFiles
\* before the sort and the files of the entries returned
getAllTranscripts(drive) ==
    IF FirstFailure(AllQueries(drive), drive) # 0
    THEN [kind |-> "error", value |-> <<>>,
          queries |-> <<"meeting">> \o Made(AllQueries(drive), drive),
          pool |-> <<>>, unique |-> <<>>, ranked |-> <<>>]
    ELSE [kind |-> "list",
          value |-> [i \in 1..Len(slicedFiles(drive)) |->
                        MakeTranscript(slicedFiles(drive)[i],
                                       EntryContent(slicedFiles(drive)[i], i, drive))],
          queries |-> <<"meeting">> \o AllQueries(drive)
                          \o EntryContentCalls(slicedFiles(drive)),
          pool |-> allFiles(drive),
          unique |-> uniqueFiles(drive),
          ranked |-> slicedFiles(drive)]

\* ------------------------------------------------------------------------
\* Meeting list: extractMeetingCode, generateMeetingName, getMeetings,
\* enrichMeetingsWithCalendarData, extractMeetLinkFromEvent
\* ------------------------------------------------------------------------

Letters == LowerLetters \cup UpperLetters

\* the least number of a non-empty set of numbers
Least(S) == CHOOSE i \in S : \A j \in S : i <= j

\* the n characters of s from position i exist and are all in class
AllIn(s, i, n, class) ==
    i + n - 1 <= Len(s) /\ \A k \in i..(i + n - 1) : CharAt(s, k) \in class

\* the text of s at position i is t, whatever the case (flag i; t lower-case)
StartsAtIgnoreCase(s, i, t) ==
    i >= 1 /\ i + Len(t) - 1 <= Len(s) /\ toLowerCase(SubSeq(s, i, i + Len(t) - 1)) = t

\* the longest run of characters of class in s from position i
Run(s, i, class) == SubSeq(s, i, i + RunLen(s, i, class) - 1)

\* the positions of s where /([a-z]{3}-[a-z]{4}-[a-z]{3})/i matches
HyphenCodeStarts(s) ==
    {i \in 1..Len(s) :
        /\ AllIn(s, i, 3, Letters)
        /\ StartsAt(s, i + 3, "-")
        /\ AllIn(s, i + 4, 4, Letters)
        /\ StartsAt(s, i + 8, "-")
        /\ AllIn(s, i + 9, 3, Letters)}

\* the positions of s where /meet\.google\.com\/([a-z\-]+)/i matches
UrlCodeStarts(s) ==
    {i \in 1..Len(s) :
        /\ StartsAtIgnoreCase(s, i, "meet.google.com/")
        /\ RunLen(s, i + 16, Letters \cup {"-"}) > 0}

\* the positions of s where /Meeting\s+([A-Z0-9\-]+)/i matches
LabelCodeStarts(s) ==
    {i \in 1..Len(s) :
        /\ StartsAtIgnoreCase(s, i, "meeting")
        /\ RunLen(s, i + 7, WhiteSpace) > 0
        /\ RunLen(s, i + 7 + RunLen(s, i + 7, WhiteSpace),
                  Letters \cup Digits \cup {"-"}) > 0}

\* Mutant of extractMeetingCode: the "Meeting <code>" pattern is tried before
\* the meet.google.com/ pattern.
extractMeetingCode_LabelBeforeUrl(fileName) ==
    IF HyphenCodeStarts(fileName) # {}
    THEN SubSeq(fileName, Least(HyphenCodeStarts(fileName)),
                Least(HyphenCodeStarts(fileName)) + 11)
    ELSE IF LabelCodeStarts(fileName) # {}
    THEN Run(fileName,
             Least(LabelCodeStarts(fileName)) + 7
                 + RunLen(fileName, Least(LabelCodeStarts(fileName)) + 7, WhiteSpace),
             Letters \cup Digits \cup {"-"})
    ELSE IF UrlCodeStarts(fileName) # {}
    THEN Run(fileName, Least(UrlCodeStarts(fileName)) + 16, Letters \cup {"-"})
    ELSE Undefined

\* Mutant of extractMeetingCode: the meet.google.com/ pattern is tried first.
extractMeetingCode_UrlFirst(fileName) ==
    IF UrlCodeStarts(fileName) # {}
    THEN Run(fileName, Least(UrlCodeStarts(fileName)) + 16, Letters \cup {"-"})
    ELSE IF HyphenCodeStarts(fileName) # {}
    THEN SubSeq(fileName, Least(HyphenCodeStarts(fileName)),
                Least(HyphenCodeStarts(fileName)) + 11)
    ELSE IF LabelCodeStarts(fileName) # {}
    THEN Run(fileName,
             Least(LabelCodeStarts(fileName)) + 7
                 + RunLen(fileName, Least(LabelCodeStarts(fileName)) + 7, WhiteSpace),
             Letters \cup Digits \cup {"-"})
    ELSE Undefined

\* extractMeetingCode: the capture of the first pattern that matches
extractMeetingCode(fileName) ==
    IF HyphenCodeStarts(fileName) # {}
    THEN SubSeq(fileName, Least(HyphenCodeStarts(fileName)),
                Least(HyphenCodeStarts(fileName)) + 11)
    ELSE IF UrlCodeStarts(fileName) # {}
    THEN Run(fileName, Least(UrlCodeStarts(fileName)) + 16, Letters \cup {"-"})
    ELSE IF LabelCodeStarts(fileName) # {}
    THEN Run(fileName,
             Least(LabelCodeStarts(fileName)) + 7
                 + RunLen(fileName, Least(LabelCodeStarts(fileName)) + 7, WhiteSpace),
             Letters \cup Digits \cup {"-"})
    ELSE Undefined

RECURSIVE ReplaceEach(_, _, _)
\* s.replace(/[class]/g, by)
ReplaceEach(s, class, by) ==
    IF Len(s) = 0 THEN ""
    ELSE (IF CharAt(s, 1) \in class THEN by ELSE CharAt(s, 1))
         \o ReplaceEach(From(s, 2), class, by)

\* the alternatives of /^(Meeting|Google Meet|Meet)[\s\-_]*/i, in order
MeetingNamePrefixes == <<"meeting", "google meet", "meet">>

\* cleanName of generateMeetingName
cleanName(fileName) ==
    trim(ReplaceEach(
        StripPrefix(StripExtension(fileName, {"mp4", "webm", "txt", "doc", "docx"}),
                    MeetingNamePrefixes),
        {"-", "_"}, " "))

generateMeetingName(fileName) ==
    IF cleanName(fileName) # "" THEN cleanName(fileName) ELSE JaMeetingName

\* the createdTime string of a time; it holds ":" and so is no meeting code
TimeString(t) == ToString(t) \o ":00Z"

\* Mutant of meetingKey: the key is the identifier of the file.
meetingKey_IdOnly(file) == file.id

\* meetingKey = meetingCode || file.createdTime || file.id
meetingKey(file) ==
    IF Truthy(extractMeetingCode(OrEmpty(file.name)))
    THEN extractMeetingCode(OrEmpty(file.name))
    ELSE IF file.createdTime # NoTime THEN TimeString(file.createdTime)
    ELSE file.id

\* the Meeting pushed for a file, whose answer carries neither modifiedTime
\* nor size; calendarEvent <<>> is no calendar event
MeetingOf(file) ==
    [id |-> OrEmpty(file.id),
     name |-> generateMeetingName(OrEmpty(file.name)),
     createdTime |-> file.createdTime,
     modifiedTime |-> Undefined,
     size |-> 0,
     meetingCode |-> extractMeetingCode(OrEmpty(file.name)),
     calendarEvent |-> <<>>]

RECURSIVE MeetingsFrom(_, _, _)
\* the meetings pushed by the loop over the files from position i, with
\* processedMeetings the keys seen so far
MeetingsFrom(files, i, processedMeetings) ==
    IF i > Len(files) THEN <<>>
    ELSE IF Truthy(meetingKey(files[i])) /\ meetingKey(files[i]) \notin processedMeetings
    THEN <<MeetingOf(files[i])>>
         \o MeetingsFrom(files, i + 1, processedMeetings \cup {meetingKey(files[i])})
    ELSE MeetingsFrom(files, i + 1, processedMeetings)

\* the positions of description where /https:\/\/meet\.google\.com\/[a-z\-]+/
\* matches
MeetLinkStarts(description) ==
    {i \in 1..Len(description) :
        /\ StartsAt(description, i, "https://meet.google.com/")
        /\ RunLen(description, i + 24, LowerLetters \cup {"-"}) > 0}

\* the positions of the entry points that are a Meet video entry
MeetEntries(event) ==
    {k \in 1..Len(event.conferenceData[1].entryPoints) :
        IsMeetEntryPoint(event.conferenceData[1].entryPoints[k])}

extractMeetLinkFromEvent(event) ==
    IF event.conferenceData # <<>>
    THEN IF MeetEntries(event) # {}
         THEN event.conferenceData[1].entryPoints[Least(MeetEntries(event))].uri
         ELSE Undefined
    ELSE IF Truthy(event.description) /\ MeetLinkStarts(event.description) # {}
    THEN SubSeq(event.description, Least(MeetLinkStarts(event.description)),
                Least(MeetLinkStarts(event.description)) + 23
                    + RunLen(event.description,
                             Least(MeetLinkStarts(event.description)) + 24,
                             LowerLetters \cup {"-"}))
    ELSE Undefined

\* the calendarEvent of a matched meeting (endTime, organizer and attendees
\* are copied from the event and left out)
CalendarMatch(event) ==
    [eventId |-> OrEmpty(event.id),
     calendarId |-> "primary",
     summary |-> OrEmpty(event.summary),
     startTime |-> event.start,
     meetLink |-> extractMeetLinkFromEvent(event)]

\* Mutant of EnrichOne: a matched meeting takes the title of its event.
EnrichOne_Renamed(meeting, meetEvents) ==
    IF findMatchingCalendarEvent(meeting, meetEvents) # 0
    THEN [meeting EXCEPT
              !.name = OrEmpty(meetEvents[findMatchingCalendarEvent(meeting, meetEvents)].summary),
              !.calendarEvent =
                  <<CalendarMatch(meetEvents[findMatchingCalendarEvent(meeting, meetEvents)])>>]
    ELSE meeting

\* one step of meetings.map: the meeting with its matching event, if any
EnrichOne(meeting, meetEvents) ==
    IF findMatchingCalendarEvent(meeting, meetEvents) # 0
    THEN [meeting EXCEPT !.calendarEvent =
              <<CalendarMatch(meetEvents[findMatchingCalendarEvent(meeting, meetEvents)])>>]
    ELSE meeting

\* calendarResponse.data.items || []
ItemsOf(calendar) == IF calendar.items # <<>> THEN calendar.items[1] ELSE <<>>

\* Mutant of CalendarFailure: the catch returns no meeting.
CalendarFailure_Empty(meetings) == <<>>

\* the catch of enrichMeetingsWithCalendarData: return meetings
CalendarFailure(meetings) == meetings

\* Mutant of enrichMeetingsWithCalendarData: the matcher is given every event.
enrichMeetingsWithCalendarData_Unfiltered(meetings, calendar) ==
    IF ~calendar.ok THEN CalendarFailure(meetings)
    ELSE [i \in 1..Len(meetings) |-> EnrichOne(meetings[i], ItemsOf(calendar))]

\* meetings.map over the events that pass hasGoogleMeetLink; the meetings as
\* they are when the calendar request fails
enrichMeetingsWithCalendarData(meetings, calendar) ==
    IF ~calendar.ok THEN CalendarFailure(meetings)
    ELSE [i \in 1..Len(meetings) |->
             EnrichOne(meetings[i], SelectSeq(ItemsOf(calendar), hasGoogleMeetLink))]

\* getMeetings; meetings records the list before the enrichment
getMeetings(drive, calendar) ==
    IF ~drive.ok
    THEN [kind |-> "error", value |-> <<>>, meetings |-> <<>>]
    ELSE [kind |-> "list",
          value |-> enrichMeetingsWithCalendarData(
                        MeetingsFrom(FilesOf(drive), 1, {}), calendar),
          meetings |-> MeetingsFrom(FilesOf(drive), 1, {})]

\* ------------------------------------------------------------------------
\* Transcript Entry Parser: parseTranscriptContent
\* ------------------------------------------------------------------------

\* the characters that . of a regular expression does not match
LineTerminators == {"\n", "\r"}

\* the greatest number of a non-empty set of numbers
Greatest(S) == CHOOSE i \in S : \A j \in S : i >= j

RECURSIVE SplitOnFrom(_, _, _, _)
\* s.split(sep) for a one-character sep, from position i with the current
\* piece cur
SplitOnFrom(s, i, cur, sep) ==
    IF i > Len(s) THEN <<cur>>
    ELSE IF CharAt(s, i) = sep
         THEN <<cur>> \o SplitOnFrom(s, i + 1, "", sep)
         ELSE SplitOnFrom(s, i + 1, cur \o CharAt(s, i), sep)

\* the length of the match of \d{1,2}:\d{2} at position i of line, 0 when
\* there is none
TimestampLen(line, i) ==
    IF /\ RunLen(line, i, Digits) \in {1, 2}
       /\ StartsAt(line, i + RunLen(line, i, Digits), ":")
       /\ AllIn(line, i + RunLen(line, i, Digits) + 1, 2, Digits)
    THEN RunLen(line, i, Digits) + 3
    ELSE 0

\* the length of the match of (?::\d{2}) at position j of line, 0 when there
\* is none
SecondsLen(line, j) ==
    IF StartsAt(line, j, ":") /\ AllIn(line, j + 1, 2, Digits) THEN 3 ELSE 0

\* the length of the match of \]? at position j when it is taken
BracketLen(line, j) == IF StartsAt(line, j, "]") THEN 1 ELSE 0

\* the positions where (.+)$ can start when \]?\s* starts at position j: after
\* no character, or after the bracket and some of the white space behind it,
\* with one character or more, none a line terminator, up to the end
TextStarts(line, j) ==
    {k \in j..Len(line) :
        /\ \/ k = j
           \/ k - j - BracketLen(line, j)
                  \in 0..RunLen(line, j + BracketLen(line, j), WhiteSpace)
        /\ \A m \in k..Len(line) : CharAt(line, m) \notin LineTerminators}

\* the position of the timestamp: behind ^\[?
TimestampStart(line) == IF StartsAt(line, 1, "[") THEN 2 ELSE 1

\* the position behind group 1 of the match of
\* /^\[?(\d{1,2}:\d{2}(?::\d{2})?)\]?\s*(.+)$/ on line, 0 when there is no
\* match: the seconds are taken when the rest still matches behind them
TimestampEnd(line) ==
    IF TimestampLen(line, TimestampStart(line)) = 0 THEN 0
    ELSE IF /\ SecondsLen(line, TimestampStart(line)
                               + TimestampLen(line, TimestampStart(line))) > 0
            /\ TextStarts(line, TimestampStart(line)
                               + TimestampLen(line, TimestampStart(line)) + 3) # {}
    THEN TimestampStart(line) + TimestampLen(line, TimestampStart(line)) + 3
    ELSE IF TextStarts(line, TimestampStart(line)
                           + TimestampLen(line, TimestampStart(line))) # {}
    THEN TimestampStart(line) + TimestampLen(line, TimestampStart(line))
    ELSE 0

\* Mutant of EntriesOf: a line with no timestamp gives no entry.
EntriesOf_TimestampedOnly(line) ==
    IF TimestampEnd(line) # 0
    THEN <<[text |-> trim(From(line, Greatest(TextStarts(line, TimestampEnd(line))))),
            timestamp |-> SubSeq(line, TimestampStart(line), TimestampEnd(line) - 1)]>>
    ELSE <<>>

\* the entries pushed for a line: group 2 is the longest-delayed text that
\* \]?\s* leaves (both greedy); timestamp Undefined is no timestamp
EntriesOf(line) ==
    IF TimestampEnd(line) # 0
    THEN <<[text |-> trim(From(line, Greatest(TextStarts(line, TimestampEnd(line))))),
            timestamp |-> SubSeq(line, TimestampStart(line), TimestampEnd(line) - 1)]>>
    ELSE IF trim(line) # ""
    THEN <<[text |-> trim(line), timestamp |-> Undefined]>>
    ELSE <<>>

RECURSIVE EntriesFrom(_, _)
\* the entries pushed by the loop over the lines from position i
EntriesFrom(lines, i) ==
    IF i > Len(lines) THEN <<>>
    ELSE EntriesOf(lines[i]) \o EntriesFrom(lines, i + 1)

parseTranscriptContent(content) ==
    IF ~Truthy(content) THEN <<>>
    ELSE EntriesFrom(
             SelectSeq(SplitOnFrom(content, 1, "", "\n"), LAMBDA line : trim(line) # ""),
             1)

\* ------------------------------------------------------------------------
\* SpecCorrelator: findMatchingCalendarEvent on bounded inputs
\* ------------------------------------------------------------------------

\* the longest event list handed to the matcher
MaxEvents == 2

\* the creation time of the meetings of the inputs, in minutes
MeetingTime == 6000

TheCode == "abc-defg-hij"

MeetEntry == [entryPointType |-> "video", uri |-> "https://meet.google.com/abc-defg-hij"]

\* no description; one holding the meeting code in a Meet link
EventDescriptions == {Undefined, "Join https://meet.google.com/abc-defg-hij"}

\* no start; the meeting's time (50 points); 2 h 12 min later (39 points)
EventStarts == {NoTime, MeetingTime, MeetingTime + 132}

\* for the meeting name "Weekly Sync": none, equal (80 points), one common
\* word (10 points)
EventSummaries == {Undefined, "weekly sync", "Sync planning"}

EventConferences == {<<>>, <<[entryPoints |-> <<MeetEntry>>]>>}

\* The events the matcher is given pass hasGoogleMeetLink (meetEvents of
\* enrichMeetingsWithCalendarData); an event that has the link in its
\* description is not also given the conference entry.
AllEvents ==
    {e \in [id : {"ev"}, summary : EventSummaries, description : EventDescriptions,
            start : EventStarts, conferenceData : EventConferences] :
        /\ e.description = Undefined \/ e.conferenceData = <<>>
        /\ hasGoogleMeetLink(e)}

CorrelatorMeetings ==
    {[id |-> "m1", name |-> "Weekly Sync 2025/08/25 13:58 JST~Recording",
      createdTime |-> MeetingTime, meetingCode |-> TheCode],
     [id |-> "m2", name |-> "Weekly Sync",
      createdTime |-> MeetingTime, meetingCode |-> Undefined],
     [id |-> "m3", name |-> "", createdTime |-> NoTime, meetingCode |-> TheCode]}

\* all sequences over S of length at most n
SeqsUpTo(S, n) == UNION {[1..k -> S] : k \in 0..n}

\* A request: the operation is called with args and has not returned yet.
Called(name, inputs) ==
    /\ op = name
    /\ args \in inputs
    /\ pc = "called"
    /\ ret = <<>>

Returned(name) == op = name /\ pc = "returned"

CorrelatorInputs ==
    [meeting : CorrelatorMeetings, events : SeqsUpTo(AllEvents, MaxEvents)]

InitCorrelator == Called("findMatchingCalendarEvent", CorrelatorInputs)

CallFindMatchingCalendarEvent ==
    /\ op = "findMatchingCalendarEvent"
    /\ pc = "called"
    /\ ret' = findMatchingCalendarEvent(args.meeting, args.events)
    /\ pc' = "returned"
    /\ UNCHANGED <<op, args>>

NextCorrelator == CallFindMatchingCalendarEvent

SpecCorrelator == InitCorrelator /\ [][NextCorrelator]_vars


\* ------------------------------------------------------------------------
\* SpecRanker: selectBestTranscriptFile on bounded inputs
\* ------------------------------------------------------------------------

\* the longest candidate list handed to the ranker
MaxFiles == 2

\* Date.now() of the request, in minutes (day 70, 00:00)
Now == 100800

Days(n) == n * 24 * 60

FileIds == <<"f1", "f2", "f3", "f4">>

\* The candidates a list is drawn from (the id is given by the position):
\* the two files of the worked example of the spec, each also outside the
\* anchor's folder; a recent document with the second transcript keyword; a
\* file with no name, type, time or parents.
RankerFiles ==
    {[name |-> "transcript_meeting.txt", mimeType |-> PlainText,
      createdTime |-> Now - Days(2), parents |-> <<"folderA">>],
     [name |-> "notes.pdf", mimeType |-> GoogleDoc,
      createdTime |-> Now - Days(30), parents |-> <<"folderA">>],
     [name |-> "transcript_meeting.txt", mimeType |-> PlainText,
      createdTime |-> Now - Days(2), parents |-> <<"folderB">>],
     [name |-> "notes.pdf", mimeType |-> GoogleDoc,
      createdTime |-> Now - Days(30), parents |-> <<>>],
     [name |-> "Standup {mojiokoshi} Transcript", mimeType |-> GoogleDoc,
      createdTime |-> Now - 12 * 60, parents |-> <<"folderB">>],
     [name |-> Undefined, mimeType |-> Undefined,
      createdTime |-> NoTime, parents |-> <<>>]}

\* The meeting files (anchors): none, or one in folderA whose base name is
\* "notes" or "transcript", created on the day of either example file or
\* with no creation time.
RankerAnchors ==
    {<<>>}
    \cup
    {<<[id |-> "m1", name |-> n, createdTime |-> t, parents |-> <<"folderA">>]>> :
        n \in {"Recording notes 1.mp4", "Meeting_transcript.mp4"},
        t \in {Now - Days(30) + 600, Now - Days(2) + 600, NoTime}}

\* the list of the files tpl with the ids of their positions
WithIds(tpl) ==
    [i \in 1..Len(tpl) |->
        [id |-> FileIds[i], name |-> tpl[i].name, mimeType |-> tpl[i].mimeType,
         createdTime |-> tpl[i].createdTime, parents |-> tpl[i].parents]]

RankerFileLists == {WithIds(tpl) : tpl \in SeqsUpTo(RankerFiles, MaxFiles)}

InitRanker ==
    /\ op = "selectBestTranscriptFile"
    /\ args \in [files : RankerFileLists, meetingFile : RankerAnchors, now : {Now}]
    /\ pc = "called"
    /\ ret = <<>>

CallSelectBestTranscriptFile ==
    /\ op = "selectBestTranscriptFile"
    /\ pc = "called"
    /\ ret' = selectBestTranscriptFile(args.files, args.meetingFile, args.now)
    /\ pc' = "returned"
    /\ UNCHANGED <<op, args>>

NextRanker == CallSelectBestTranscriptFile

SpecRanker == InitRanker /\ [][NextRanker]_vars

\* ------------------------------------------------------------------------
\* SpecTranscripts: the ranker, both getTranscript and getAllTranscripts on
\* bounded Drive answers
\* ------------------------------------------------------------------------

\* the longest answer of a strategy 1 or 2 query of getAllTranscripts
MaxPool == 2

\* Files of the strategy queries (their answers carry no parents): two
\* records of the same id with different fields, a document created 30 days
\* ago, and a file with no field set.
TranscriptTxt ==
    [id |-> "t1", name |-> "transcript_meeting.txt", mimeType |-> PlainText,
     createdTime |-> Now - Days(2), parents |-> <<>>]

TranscriptRenamed ==
    [id |-> "t1", name |-> "Transcript (renamed)", mimeType |-> GoogleDoc,
     createdTime |-> Now - Days(29), parents |-> <<>>]

NotesDoc ==
    [id |-> "t2", name |-> "notes.pdf", mimeType |-> GoogleDoc,
     createdTime |-> Now - Days(30), parents |-> <<>>]

BlankFile ==
    [id |-> Undefined, name |-> Undefined, mimeType |-> Undefined,
     createdTime |-> NoTime, parents |-> <<>>]

MeetupPdf ==
    [id |-> "t3", name |-> "Meetup notes", mimeType |-> "application/pdf",
     createdTime |-> Now - Days(1), parents |-> <<>>]

MeetingMemo ==
    [id |-> "t4", name |-> "Meeting memo", mimeType |-> GoogleDoc,
     createdTime |-> Now - Days(3), parents |-> <<>>]

DriveFiles == {TranscriptTxt, TranscriptRenamed, NotesDoc}

\* more files than getAllTranscripts returns, of distinct ids, newest first
LongList ==
    [i \in 1..(MaxTranscripts + 1) |->
        [id |-> ToString(i), name |-> "transcript", mimeType |-> PlainText,
         createdTime |-> Now - Days(i), parents |-> <<>>]]

\* the answer of a query that the inputs do not vary
Unvaried == Listed(<<>>)

\* orderBy: "createdTime desc", and no id twice in one answer
IsDriveListing(l) ==
    \A i, j \in 1..Len(l) :
        i < j => (l[i].createdTime >= l[j].createdTime /\ l[i].id # l[j].id)

PoolResponses ==
    {Failed, NoFilesField}
    \cup {Listed(l) : l \in {x \in SeqsUpTo(DriveFiles, MaxPool) : IsDriveListing(x)}}

BlankResponses == {NoFilesField, Listed(<<>>)}

GlobalResponses ==
    {Failed, NoFilesField, Listed(<<>>), Listed(<<TranscriptTxt, NotesDoc>>),
     Listed(<<TranscriptTxt, BlankFile>>), Listed(LongList)}

BroadResponses ==
    {Failed, Listed(<<>>), Listed(<<MeetupPdf>>),
     Listed(<<MeetupPdf, TranscriptTxt, MeetingMemo>>)}

StrategyResponses == {Failed, Listed(<<>>), Listed(<<TranscriptTxt, NotesDoc>>)}

\* the meeting file: unknown; with a folder and a creation time; with a
\* folder only; with a creation time only
MeetingAnswers ==
    {<<>>,
     <<[id |-> "m1", name |-> "Recording notes 1.mp4",
        createdTime |-> Now - Days(30) + 600, parents |-> <<"folderA">>]>>,
     <<[id |-> "m1", name |-> "Meeting_transcript.mp4",
        createdTime |-> NoTime, parents |-> <<"folderA">>]>>,
     <<[id |-> "m1", name |-> Undefined,
        createdTime |-> Now - Days(2) + 600, parents |-> <<>>]>>}

ContentAnswers == {Failed, Content("[10:15] Hello there"), Content(Undefined)}

\* the answers to export and to get(alt: media) that getAllTranscripts is
\* tried with
ContentPairs ==
    {<<Content("[10:15] Hello there"), Content("[10:15] Hello there")>>,
     <<Failed, Failed>>,
     <<Failed, Content("[10:15] Hello there")>>,
     <<Content(Undefined), Failed>>}

\* Drive for getTranscript of README.md: the single query varies
SingleQueryDrives ==
    [meeting : MeetingAnswers,
     list : [single : {Failed, NoFilesField}
                      \cup {Listed(l) : l \in {x \in RankerFileLists : IsDriveListing(x)}},
             folder : {Unvaried}, name : {Unvaried}, global : {Unvaried},
             broad : {Unvaried}],
     export : {Failed, Content("[10:15] Hello there")},
     media : ContentAnswers]

\* Drive for getTranscript of lib/google-meet-api.ts
StrategyDrives ==
    [meeting : MeetingAnswers,
     list : [single : {Unvaried}, folder : StrategyResponses, name : StrategyResponses,
             global : StrategyResponses, broad : BroadResponses],
     export : {Failed, Content("[10:15] Hello there")},
     media : ContentAnswers]

\* Drive for getAllTranscripts: the answers of strategies 1 and 2 vary with
\* 3 and 4 empty, or those of 3 and 4 vary with 1 and 2 empty, or every
\* strategy has files of its own to answer with
AllTranscriptsDrives ==
    {[meeting |-> m, list |-> l, export |-> c[1], media |-> c[2]] :
        m \in MeetingAnswers,
        l \in [single : {Unvaried}, folder : PoolResponses, name : PoolResponses,
               global : {Unvaried}, broad : {Unvaried}]
              \cup
              [single : {Unvaried}, folder : BlankResponses, name : BlankResponses,
               global : GlobalResponses, broad : BroadResponses]
              \cup
              [single : {Unvaried},
               folder : {Listed(<<>>), Listed(<<TranscriptTxt>>)},
               name : {Listed(<<>>), Listed(<<NotesDoc>>)},
               global : {Listed(<<>>), Listed(<<MeetingMemo>>)},
               broad : {Listed(<<MeetupPdf, TranscriptRenamed>>)}],
        c \in ContentPairs}

InitTranscripts ==
    \/ InitRanker
    \/ Called("getTranscript", [drive : SingleQueryDrives, now : {Now}])
    \/ Called("getTranscriptByStrategies", [drive : StrategyDrives, now : {Now}])
    \/ Called("getAllTranscripts", [drive : AllTranscriptsDrives, now : {Now}])

CallGetTranscript ==
    /\ op = "getTranscript"
    /\ pc = "called"
    /\ ret' = getTranscript(args.drive, args.now)
    /\ pc' = "returned"
    /\ UNCHANGED <<op, args>>

CallGetTranscriptByStrategies ==
    /\ op = "getTranscriptByStrategies"
    /\ pc = "called"
    /\ ret' = getTranscriptByStrategies(args.drive)
    /\ pc' = "returned"
    /\ UNCHANGED <<op, args>>

CallGetAllTranscripts ==
    /\ op = "getAllTranscripts"
    /\ pc = "called"
    /\ ret' = getAllTranscripts(args.drive)
    /\ pc' = "returned"
    /\ UNCHANGED <<op, args>>

NextTranscripts ==
    \/ CallSelectBestTranscriptFile
    \/ CallGetTranscript
    \/ CallGetTranscriptByStrategies
    \/ CallGetAllTranscripts

SpecTranscripts == InitTranscripts /\ [][NextTranscripts]_vars

\* ------------------------------------------------------------------------
\* SpecMeetings: getMeetings on bounded Drive and Calendar answers
\* ------------------------------------------------------------------------

\* the longest answer of the Drive query of getMeetings
MaxMeetingFiles == 2

\* Files of the meeting query: a recording whose name holds a meeting code; a
\* recording with a date stamp and no code; a transcript with the code of the
\* first; a file with no field set.
MeetingFiles ==
    {[id |-> "f1", name |-> "Meeting abc-defg-hij Weekly_Sync.mp4",
      mimeType |-> "video/mp4", createdTime |-> MeetingTime, parents |-> <<>>],
     [id |-> "f2", name |-> "Weekly Sync 2025/08/25 13:58 JST~Recording",
      mimeType |-> "video/mp4", createdTime |-> MeetingTime - 60, parents |-> <<>>],
     [id |-> "f3", name |-> "abc-defg-hij transcript.txt",
      mimeType |-> PlainText, createdTime |-> MeetingTime - 120, parents |-> <<>>],
     [id |-> "f4", name |-> "Weekly Sync 2025/08/25 13:58 JST~Chat",
      mimeType |-> PlainText, createdTime |-> MeetingTime - 60, parents |-> <<>>],
     [id |-> "f5", name |-> "Meet notes",
      mimeType |-> GoogleDoc, createdTime |-> NoTime, parents |-> <<>>],
     BlankFile}

MeetingListAnswers ==
    {Failed, NoFilesField}
    \cup {Listed(l) : l \in {x \in SeqsUpTo(MeetingFiles, MaxMeetingFiles) : IsDriveListing(x)}}

\* Events of the calendar: one with the code in a Meet link of its
\* description; one with a Meet conference entry, the name and nearly the
\* time of the second file; one with that name, the bare code in its
\* description and no Meet link.
CalendarEvents ==
    {[id |-> "e1", summary |-> "Planning", start |-> MeetingTime + 600,
      description |-> "Join https://meet.google.com/abc-defg-hij",
      conferenceData |-> <<>>],
     [id |-> "e2", summary |-> "Weekly Sync", start |-> MeetingTime - 45,
      description |-> Undefined,
      conferenceData |-> <<[entryPoints |-> <<MeetEntry>>]>>],
     [id |-> "e3", summary |-> "Weekly Sync", start |-> MeetingTime - 60,
      description |-> "Code abc-defg-hij", conferenceData |-> <<>>]}

\* a rejected events.list, an answer without items, an answer with items
CalendarAnswers ==
    {[ok |-> FALSE, items |-> <<>>], [ok |-> TRUE, items |-> <<>>]}
    \cup {[ok |-> TRUE, items |-> <<l>>] : l \in SeqsUpTo(CalendarEvents, MaxEvents)}

InitMeetings ==
    Called("getMeetings", [drive : MeetingListAnswers, calendar : CalendarAnswers])

CallGetMeetings ==
    /\ op = "getMeetings"
    /\ pc = "called"
    /\ ret' = getMeetings(args.drive, args.calendar)
    /\ pc' = "returned"
    /\ UNCHANGED <<op, args>>

NextMeetings == CallGetMeetings

SpecMeetings == InitMeetings /\ [][NextMeetings]_vars

\* ------------------------------------------------------------------------
\* SpecParser: parseTranscriptContent on bounded texts
\* ------------------------------------------------------------------------

\* the most pieces a text is made of
MaxPieces == 3

\* the pieces of the texts: timestamps with and without brackets and
\* seconds, an hour of three digits, a lone closing bracket, unfinished
\* seconds, a word, white space and the two line breaks
ParserPieces == {"[10:15]", "1:05:30", "123:45", "]", ":3", "Hi", " ", "\n", "\r"}

ExampleContent == "[10:15] Hello there\nNo timestamp line\n"

RECURSIVE Concat(_, _)
\* the pieces from position i joined
Concat(pieces, i) ==
    IF i > Len(pieces) THEN "" ELSE pieces[i] \o Concat(pieces, i + 1)

ParserContents ==
    {Undefined, ExampleContent, " 10:15 indented\r\n\r\n[9:05]\t tabbed \r\n"}
    \cup {Concat(p, 1) : p \in SeqsUpTo(ParserPieces, MaxPieces)}

InitParser == Called("parseTranscriptContent", [content : ParserContents])

CallParseTranscriptContent ==
    /\ op = "parseTranscriptContent"
    /\ pc = "called"
    /\ ret' = parseTranscriptContent(args.content)
    /\ pc' = "returned"
    /\ UNCHANGED <<op, args>>

NextParser == CallParseTranscriptContent

SpecParser == InitParser /\ [][NextParser]_vars

\* ------------------------------------------------------------------------
\* SpecNames: extractMeetingCode and extractMeetingBaseName on bounded
\* file names
\* ------------------------------------------------------------------------

\* the most parts a file name is made of
MaxNameParts == 3

\* the parts of the names given to extractMeetingCode: two codes, the
\* prefixes of the second and third pattern, letters, digits, hyphens
CodeNameParts ==
    {"abc-defg-hij", "XYZ-uvwx-rst", "Meeting ", "meet.google.com/",
     "ab-cd", "x", "-", " ", "9"}

\* the parts of the names given to extractMeetingBaseName: one of each
\* removable part, a title and the head of a date stamp
BaseNameParts ==
    {"Weekly Sync", "2025/08/25 13:58 JST", "2025/08/", "~Recording",
     " {nokopii}", ".txt", ".PDF", " ", "x"}

NamesOf(parts) == [fileName : {Concat(p, 1) : p \in SeqsUpTo(parts, MaxNameParts)}]

InitNames ==
    \/ Called("extractMeetingCode", NamesOf(CodeNameParts))
    \/ Called("extractMeetingBaseName", NamesOf(BaseNameParts))

CallExtractMeetingCode ==
    /\ op = "extractMeetingCode"
    /\ pc = "called"
    /\ ret' = extractMeetingCode(args.fileName)
    /\ pc' = "returned"
    /\ UNCHANGED <<op, args>>

CallExtractMeetingBaseName ==
    /\ op = "extractMeetingBaseName"
    /\ pc = "called"
    /\ ret' = extractMeetingBaseName(args.fileName)
    /\ pc' = "returned"
    /\ UNCHANGED <<op, args>>

NextNames == CallExtractMeetingCode \/ CallExtractMeetingBaseName

SpecNames == InitNames /\ [][NextNames]_vars

\* ------------------------------------------------------------------------
\* SpecRuns: the ranker invoked again and again on one snapshot, each
\* invocation reading the clock (Date.now() of calculateRelevanceScore)
\* ------------------------------------------------------------------------

\* the most invocations on one snapshot
MaxRuns == 2

\* the times the clock can show at an invocation
ClockTimes == {Now, Now + Days(1), Now + Days(9)}

\* The candidates of the snapshot: a recent document with no keyword, an
\* old file with the meeting keyword, a text file in the anchor's folder with
\* both transcript keywords and both base names, and a file with no name,
\* type, time or parents.
RunFiles ==
    {[name |-> "Weekly sync", mimeType |-> GoogleDoc,
      createdTime |-> Now - Days(1), parents |-> <<>>],
     [name |-> "meeting log.pdf", mimeType |-> "application/pdf",
      createdTime |-> Now - Days(30), parents |-> <<>>],
     [name |-> "Standup {mojiokoshi} Transcript notes.txt", mimeType |-> PlainText,
      createdTime |-> Now - Days(2), parents |-> <<"folderA">>],
     [name |-> Undefined, mimeType |-> Undefined,
      createdTime |-> NoTime, parents |-> <<>>]}

RunFileLists == {WithIds(tpl) : tpl \in SeqsUpTo(RunFiles, MaxFiles)}

\* the anchors of the snapshots: none, one of the day of the third candidate,
\* an older one and one without a creation time
RunAnchors ==
    {<<>>,
     <<[id |-> "m1", name |-> "Recording notes 1.mp4",
        createdTime |-> Now - Days(2) + 600, parents |-> <<"folderA">>]>>,
     <<[id |-> "m1", name |-> "Recording notes 1.mp4",
        createdTime |-> Now - Days(30) + 600, parents |-> <<"folderA">>]>>,
     <<[id |-> "m1", name |-> "Meeting_transcript.mp4",
        createdTime |-> NoTime, parents |-> <<"folderA">>]>>}

InitRuns == Called("rankSnapshot", [files : RunFileLists, meetingFile : RunAnchors])

\* one invocation of selectBestTranscriptFile on the snapshot at a time t not
\* before the last one; ret is the log of the invocations, with the score of
\* each file and the recency bonus that is part of it
InvokeRanker ==
    /\ op = "rankSnapshot"
    /\ Len(ret) < MaxRuns
    /\ \E t \in ClockTimes :
           /\ IF ret = <<>> THEN TRUE ELSE t >= ret[Len(ret)].now
           /\ ret' = Append(ret,
                  [now |-> t,
                   scores |-> [i \in 1..Len(args.files) |->
                                  calculateRelevanceScore1440(args.files[i],
                                                              args.meetingFile, t)],
                   recency |-> [i \in 1..Len(args.files) |->
                                   RecencyPoints1440(args.files[i], t)],
                   selected |-> selectBestTranscriptFile(args.files, args.meetingFile, t)])
    /\ pc' = "returned"
    /\ UNCHANGED <<op, args>>

NextRuns == InvokeRanker

SpecRuns == InitRuns /\ [][NextRuns]_vars

\* ------------------------------------------------------------------------
\* SpecScore: one pass of the loop of findMatchingCalendarEvent, which
\* computes matchScore for one event
\* ------------------------------------------------------------------------

\* the meetings of the correlator and one whose name is a date stamp and a
\* type suffix only
ScoreMeetings ==
    CorrelatorMeetings
    \cup {[id |-> "m4", name |-> "2025/08/25 13:58 JST~Recording",
           createdTime |-> MeetingTime, meetingCode |-> Undefined]}

\* no summary, an empty one, and for the name "Weekly Sync": the same name in
\* another case, a longer and a shorter name, names with two, one and no
\* common word
ScoreSummaries ==
    {Undefined, "", "weekly SYNC", "Weekly Sync planning", "Sync",
     "sync planning weekly", "Weekly budget", "Budget review"}

\* no start.dateTime, and starts 0, 1, just under 6, 6, just over 6 and 10
\* hours from the meeting time
ScoreStarts ==
    {NoTime, MeetingTime, MeetingTime - 60, MeetingTime + 359, MeetingTime + 360,
     MeetingTime + 361, MeetingTime - 600}

ScoreEvents ==
    {e \in [id : {"ev"}, summary : ScoreSummaries, description : EventDescriptions,
            start : ScoreStarts, conferenceData : EventConferences] :
        /\ e.description = Undefined \/ e.conferenceData = <<>>
        /\ hasGoogleMeetLink(e)}

InitScore == Called("matchScore", [meeting : ScoreMeetings, event : ScoreEvents])

\* the body of the loop for the event: the four contributions and matchScore
ScoreEvent ==
    /\ op = "matchScore"
    /\ pc = "called"
    /\ ret' = [code |-> CodePoints12(args.meeting, args.event),
               time |-> TimePoints12(args.meeting, args.event),
               name |-> NamePoints12(extractMeetingBaseName(args.meeting.name), args.event),
               link |-> LinkPoints12(args.event),
               matchScore |-> matchScore12(args.meeting, args.event)]
    /\ pc' = "returned"
    /\ UNCHANGED <<op, args>>

NextScore == ScoreEvent

SpecScore == InitScore /\ [][NextScore]_vars

\* ------------------------------------------------------------------------
\* The common-word counter on its own: countCommonWords(str1, str2)
\* ------------------------------------------------------------------------
MaxWordPieces == 3

WordPieces == {"sync", "presyn", "planning", "42", "a", " ", "-"}

\* the second strings: event summaries in lower case
WordSummaries == {"", "sync", "weekly sync-up", "plan 42", "unplanned_review/a"}

WordInputs ==
    [str1 : {Concat(p, 1) : p \in SeqsUpTo(WordPieces, MaxWordPieces)},
     str2 : WordSummaries]

InitWords == Called("countCommonWords", WordInputs)

CallCountCommonWords ==
    /\ op = "countCommonWords"
    /\ pc = "called"
    /\ ret' = countCommonWords(args.str1, args.str2)
    /\ pc' = "returned"
    /\ UNCHANGED <<op, args>>

NextWords == CallCountCommonWords

SpecWords == InitWords /\ [][NextWords]_vars

\* ------------------------------------------------------------------------
\* The two scoring functions on records with missing fields
\* ------------------------------------------------------------------------

\* events with every subset of summary, description, start.dateTime and
\* conferenceData missing
SparseEvents ==
    [id : {"ev"}, summary : {Undefined, "weekly sync"},
     description : EventDescriptions, start : {NoTime, MeetingTime + 132},
     conferenceData : EventConferences]

\* meetings with and without a name, a creation time and a meeting code
SparseMeetings ==
    [id : {"m1"}, name : {"", "Weekly Sync 2025/08/25 13:58 JST~Recording"},
     createdTime : {NoTime, MeetingTime}, meetingCode : {Undefined, TheCode}]

\* candidates with every subset of name, mimeType, createdTime and parents
\* missing
SparseFiles ==
    [id : {"f1"}, name : {Undefined, "Notes transcript"},
     mimeType : {Undefined, GoogleDoc}, createdTime : {NoTime, Now - Days(2)},
     parents : {<<>>, <<"folderA">>}]

\* no anchor, and anchors with every subset of name, createdTime and parents
\* missing
SparseAnchors ==
    {<<>>}
    \cup
    {<<a>> : a \in [id : {"m1"}, name : {Undefined, "Recording notes 1.mp4"},
                    createdTime : {NoTime, Now - Days(2) + 600},
                    parents : {<<>>, <<"folderA">>}]}

InitSparse ==
    \/ Called("matchScore", [meeting : SparseMeetings, event : SparseEvents])
    \/ Called("calculateRelevanceScore", [file : SparseFiles, meetingFile : SparseAnchors])

\* one call of calculateRelevanceScore at a time of the clock: the four groups
\* of points and their sum
ScoreCandidate ==
    /\ op = "calculateRelevanceScore"
    /\ pc = "called"
    /\ \E t \in ClockTimes :
           ret' = [now |-> t,
                   keyword |-> KeywordPoints(args.file),
                   type |-> TypePoints(args.file),
                   recency |-> RecencyPoints1440(args.file, t),
                   anchor |-> AnchorPoints(args.file, args.meetingFile),
                   score |-> calculateRelevanceScore1440(args.file, args.meetingFile, t)]
    /\ pc' = "returned"
    /\ UNCHANGED <<op, args>>

NextSparse == ScoreEvent \/ ScoreCandidate

SpecSparse == InitSparse /\ [][NextSparse]_vars

\* ------------------------------------------------------------------------
\* The MeetingList component (part_005, part_004): its three states and
\* fetchMeetings. op is the component, args its props, pc "mounted" before the
\* effect has run, "fetching" while fetchMeetings awaits and "idle" otherwise;
\* ret is [meetings, loading, error] with the count of the fetches started and
\* the outcome of the last one that completed.
\* ------------------------------------------------------------------------

\* the most fetches started
MaxFetches == 4

\* useState<string | null>(null)
Null == "<null>"

\* data.meetings of the answers of /api/meetings that are ok: absent, empty,
\* one and two meetings
MeetingsAnswered == {<<>>, <<<<>>>>, <<<<"m1">>>>, <<<<"m1", "m2">>>>}

\* what the catch of fetchMeetings is reached with: the Error thrown for an
\* answer that is not ok, an Error of fetch and a value that is no Error
FetchErrors ==
    {[isError |-> TRUE, message |-> "Failed to fetch meetings"],
     [isError |-> TRUE, message |-> "Network error"],
     [isError |-> FALSE, message |-> Undefined]}

\* the three early returns and the list of the render
View(state) ==
    IF state.loading THEN "loading"
    ELSE IF state.error # Null THEN "error"
    ELSE IF Len(state.meetings) = 0 THEN "empty"
    ELSE "list"

InitList ==
    /\ op = "MeetingList"
    /\ args = [onMeetingSelect |-> "handler"]
    /\ pc = "mounted"
    /\ ret = [meetings |-> <<>>, loading |-> TRUE, error |-> Null,
              fetches |-> 0, last |-> "none"]

\* useEffect(() => { fetchMeetings() }, []): setLoading(true), fetch
Mount ==
    /\ op = "MeetingList"
    /\ pc = "mounted"
    /\ ret' = [ret EXCEPT !.loading = TRUE, !.fetches = 1]
    /\ pc' = "fetching"
    /\ UNCHANGED <<op, args>>

\* onClick={fetchMeetings} of the retry button of the error view and of the
\* refresh button of the list: setLoading(true), fetch
ClickFetch ==
    /\ op = "MeetingList"
    /\ pc = "idle"
    /\ View(ret) \in {"error", "empty", "list"}
    /\ ret.fetches < MaxFetches
    /\ ret' = [ret EXCEPT !.loading = TRUE, !.fetches = @ + 1]
    /\ pc' = "fetching"
    /\ UNCHANGED <<op, args>>

\* the answer is ok: setMeetings(data.meetings || []), setLoading(false)
FetchSucceeds ==
    /\ op = "MeetingList"
    /\ pc = "fetching"
    /\ \E m \in MeetingsAnswered :
           ret' = [ret EXCEPT !.meetings = IF m = <<>> THEN <<>> ELSE m[1],
                              !.loading = FALSE,
                              !.last = "ok"]
    /\ pc' = "idle"
    /\ UNCHANGED <<op, args>>

\* the answer is not ok or fetch rejects: setError(...), setLoading(false)
FetchFails ==
    /\ op = "MeetingList"
    /\ pc = "fetching"
    /\ \E err \in FetchErrors :
           ret' = [ret EXCEPT !.error = IF err.isError THEN err.message
                                        ELSE "Unknown error occurred",
                              !.loading = FALSE,
                              !.last = "failed"]
    /\ pc' = "idle"
    /\ UNCHANGED <<op, args>>

NextList == Mount \/ ClickFetch \/ FetchSucceeds \/ FetchFails

SpecList == InitList /\ [][NextList]_vars

\* ------------------------------------------------------------------------
\* The transcripts route: GET /api/transcripts/[meetingId]
\* ------------------------------------------------------------------------

\* getServerSession: no session, a session without accessToken, one with it
RouteSessions == {<<>>, <<[accessToken |-> Undefined]>>, <<[accessToken |-> "token"]>>}

\* searchParams.get('transcriptId'): absent, empty, set
TranscriptIds == {Undefined, "", "t1"}

\* !session || !session.accessToken
Unauthorized(session) == session = <<>> \/ ~Truthy(session[1].accessToken)

\* the response of the route with what the engine was called for and what it
\* returned (engine is <<>> when it was not called)
Response(status, transcript, engine, result) ==
    [status |-> status, transcript |-> transcript, engine |-> engine, result |-> result]

\* the engine's answer to the route: getTranscript with a transcriptId, else
\* getAllTranscripts
EngineResult(transcriptId, drive, now) ==
    IF Truthy(transcriptId) THEN getTranscript(drive, now) ELSE getAllTranscripts(drive)

EngineCall(transcriptId) ==
    IF Truthy(transcriptId) THEN <<"getTranscript">> ELSE <<"getAllTranscripts">>

\* Mutant of GET: an empty result is answered with success and no transcript.
GET_EmptyIsSuccess(session, transcriptId, drive, now) ==
    IF Unauthorized(session) THEN Response(401, <<>>, <<>>, <<>>)
    ELSE IF EngineResult(transcriptId, drive, now).kind = "error"
    THEN Response(500, <<>>, EngineCall(transcriptId),
                  <<EngineResult(transcriptId, drive, now)>>)
    ELSE Response(200,
                  SubSeq(EngineResult(transcriptId, drive, now).value, 1,
                         Min(1, Len(EngineResult(transcriptId, drive, now).value))),
                  EngineCall(transcriptId),
                  <<EngineResult(transcriptId, drive, now)>>)

\* GET: 401 without a token; 500 when the engine throws; 404 when result is
\* null (getTranscript returned null, or getAllTranscripts an empty list);
\* else { transcript: result }
GET(session, transcriptId, drive, now) ==
    IF Unauthorized(session) THEN Response(401, <<>>, <<>>, <<>>)
    ELSE IF EngineResult(transcriptId, drive, now).kind = "error"
    THEN Response(500, <<>>, EngineCall(transcriptId),
                  <<EngineResult(transcriptId, drive, now)>>)
    ELSE IF Len(EngineResult(transcriptId, drive, now).value) = 0
    THEN Response(404, <<>>, EngineCall(transcriptId),
                  <<EngineResult(transcriptId, drive, now)>>)
    ELSE Response(200, <<EngineResult(transcriptId, drive, now).value[1]>>,
                  EngineCall(transcriptId),
                  <<EngineResult(transcriptId, drive, now)>>)

\* the requests: with a transcriptId the Drive answers getTranscript is tried
\* with, without one those of getAllTranscripts (the meeting file unknown)
RouteRequests ==
    [session : RouteSessions, transcriptId : {"t1"},
     drive : {d \in SingleQueryDrives : d.meeting = <<>>}, now : {Now}]
    \cup
    [session : RouteSessions, transcriptId : {Undefined, ""},
     drive : {d \in AllTranscriptsDrives : d.meeting = <<>>}, now : {Now}]

InitRoute == Called("GET", RouteRequests)

CallGET ==
    /\ op = "GET"
    /\ pc = "called"
    /\ ret' = GET(args.session, args.transcriptId, args.drive, args.now)
    /\ pc' = "returned"
    /\ UNCHANGED <<op, args>>

NextRoute == CallGET

SpecRoute == InitRoute /\ [][NextRoute]_vars

\* ------------------------------------------------------------------------
\* Claims about the Calendar Correlator (SpecCorrelator)
\* ------------------------------------------------------------------------

\* the event's description contains the meeting's code
HasCodeMatch(meeting, event) ==
    /\ Truthy(meeting.meetingCode)
    /\ Truthy(event.description)
    /\ includes(event.description, meeting.meetingCode)

\* the event agrees with the meeting on name and start time and has no code match
IsNameTimeOnlyMatch(meeting, event) ==
    /\ ~HasCodeMatch(meeting, event)
    /\ event.start # NoTime
    /\ event.start = meeting.createdTime
    /\ Truthy(event.summary)
    /\ toLowerCase(event.summary) = toLowerCase(extractMeetingBaseName(meeting.name))

\* the matcher returned for a list of one code-matched and one name+time-only
\* event, in either order
CompetingCandidates ==
    /\ Returned("findMatchingCalendarEvent")
    /\ Truthy(args.meeting.meetingCode)
    /\ Len(args.events) = 2
    /\ \E k \in 1..2 :
           /\ HasCodeMatch(args.meeting, args.events[k])
           /\ IsNameTimeOnlyMatch(args.meeting, args.events[3 - k])

\* C1 as stated: of a code-matched event and a name+time-only event, the
\* matcher returns the code-matched one, whichever comes first.
C1_CodeMatchedEventWins ==
    CompetingCandidates =>
        ret # 0 /\ HasCodeMatch(args.meeting, args.events[ret])

\* C1 amended: of a code-matched event and a name+time-only event, both of
\* which score at least 50, the matcher returns the one that comes first in
\* the list; the code-matched event is returned only when it is the first.
C1_FirstOfCompetingCandidatesWins ==
    CompetingCandidates =>
        /\ \A k \in 1..2 : matchScore12(args.meeting, args.events[k]) >= 50 * 12
        /\ ret = 1

\* C1 witness: the name+time-only event precedes the code-matched event and
\* is the one returned.
C1_Witness ==
    /\ CompetingCandidates
    /\ IsNameTimeOnlyMatch(args.meeting, args.events[1])
    /\ HasCodeMatch(args.meeting, args.events[2])
    /\ ret = 1

\* C2 as stated: when an event whose description contains the meeting's code
\* is in the list, the match is a code-matched event.
C2_CodeMatchIsTheMatch ==
    (/\ Returned("findMatchingCalendarEvent")
     /\ \E k \in 1..Len(args.events) : HasCodeMatch(args.meeting, args.events[k]))
    => (ret # 0 /\ HasCodeMatch(args.meeting, args.events[ret]))

\* C2 amended: an event whose description contains the meeting's code scores
\* at least 100 whatever its start, summary and link are; so when it is in the
\* list the matcher returns an event, at its position or before it, and it
\* returns that very event when no earlier event of the list scores 50 or more.
C2_CodeMatchSuffices ==
    Returned("findMatchingCalendarEvent") =>
        \A k \in 1..Len(args.events) :
            HasCodeMatch(args.meeting, args.events[k]) =>
                /\ matchScore12(args.meeting, args.events[k]) >= 100 * 12
                /\ ret \in 1..k
                /\ (\A j \in 1..(k - 1) :
                        matchScore12(args.meeting, args.events[j]) < 50 * 12)
                   => ret = k

\* C2 witness: a code-matched event with no start, no summary and no conference
\* entry is returned from the second position.
C2_Witness ==
    /\ Returned("findMatchingCalendarEvent")
    /\ Len(args.events) = 2
    /\ HasCodeMatch(args.meeting, args.events[2])
    /\ args.events[2].start = NoTime
    /\ args.events[2].summary = Undefined
    /\ args.events[2].conferenceData = <<>>
    /\ ret = 2

\* C3: the matcher returns the first event in list order whose score is at
\* least 50 and null exactly when no event scores at least 50; an event that
\* scores below 50 (30..49 included) is never returned, and no event after the
\* first sufficient one is returned, even when it scores higher.
C3_FirstSufficientMatch ==
    Returned("findMatchingCalendarEvent") =>
        /\ ret \in 0..Len(args.events)
        /\ (ret = 0) <=>
               (\A k \in 1..Len(args.events) :
                    matchScore12(args.meeting, args.events[k]) < 50 * 12)
        /\ ret # 0 =>
               /\ matchScore12(args.meeting, args.events[ret]) >= 50 * 12
               /\ \A j \in 1..(ret - 1) :
                      matchScore12(args.meeting, args.events[j]) < 50 * 12

\* C3 witness: an event scoring 49 (30..49) is passed over and a later
\* sufficient event is returned.
C3_Witness ==
    /\ Returned("findMatchingCalendarEvent")
    /\ Len(args.events) = 2
    /\ matchScore12(args.meeting, args.events[1]) = 49 * 12
    /\ ret = 2


\* ------------------------------------------------------------------------
\* Claims about the Transcript Candidate Ranker (SpecRanker)
\* ------------------------------------------------------------------------

\* the relevance score of the candidate at position k of the request
ScoreAt(k) == calculateRelevanceScore1440(args.files[k], args.meetingFile, args.now)

\* C4: for a non-empty candidate list the ranker returns a candidate whose
\* relevance score is the maximum over the list, and among several candidates
\* of that score the one that comes first in the original order.
C4_HighestScoreFirstInOrder ==
    (Returned("selectBestTranscriptFile") /\ Len(args.files) > 0) =>
        \E k \in 1..Len(args.files) :
            /\ ret = <<args.files[k]>>
            /\ \A j \in 1..Len(args.files) : ScoreAt(j) <= ScoreAt(k)
            /\ \A j \in 1..(k - 1) : ScoreAt(j) < ScoreAt(k)

\* C4 witness: two different candidates share the maximum score and the first
\* of them is returned.
C4_Witness ==
    /\ Returned("selectBestTranscriptFile")
    /\ Len(args.files) = 2
    /\ args.files[1].parents # args.files[2].parents
    /\ ScoreAt(1) = ScoreAt(2)
    /\ ret = <<args.files[1]>>

\* the first and the second file of the worked example
IsExampleTranscript(file) ==
    /\ file.name = "transcript_meeting.txt"
    /\ file.mimeType = PlainText
    /\ file.createdTime = args.now - Days(2)

IsExampleNotes(file, anchor) ==
    /\ file.name = "notes.pdf"
    /\ file.mimeType = GoogleDoc
    /\ file.createdTime = args.now - Days(30)
    /\ \E i \in 1..Len(file.parents), j \in 1..Len(anchor.parents) :
           file.parents[i] = anchor.parents[j]

\* the request ranks the two files of the worked example, the first at
\* position k, with an anchor in the folder of the first
WorkedExample(k) ==
    /\ Returned("selectBestTranscriptFile")
    /\ Len(args.files) = 2
    /\ args.meetingFile # <<>>
    /\ IsExampleTranscript(args.files[k])
    /\ \E i \in 1..Len(args.files[k].parents), j \in 1..Len(args.meetingFile[1].parents) :
           args.files[k].parents[i] = args.meetingFile[1].parents[j]
    /\ IsExampleNotes(args.files[3 - k], args.meetingFile[1])

\* C5: in the worked example ("transcript_meeting.txt", plain text, 2 days
\* old; "notes.pdf", document type, 30 days old, in the anchor's folder; the
\* anchor in the folder of the first) the first file scores strictly more than
\* the second and is the one selected, in either input order.
C5_WorkedExample ==
    \A k \in 1..2 :
        WorkedExample(k) =>
            /\ ScoreAt(k) > ScoreAt(3 - k)
            /\ ret = <<args.files[k]>>

\* C5 witness: the example with "notes.pdf" first, an anchor whose base name
\* is "notes" and which was created on the day of "notes.pdf"; the transcript
\* file, second in the list, is selected.
C5_Witness ==
    /\ WorkedExample(2)
    /\ BaseNamePoints(args.files[1], args.meetingFile[1]) = 8
    /\ SameDayPoints(args.files[1], args.meetingFile[1]) = 5
    /\ ret = <<args.files[2]>>

\* ------------------------------------------------------------------------
\* Claims about transcript resolution (SpecTranscripts)
\* ------------------------------------------------------------------------

\* the answer to a list query holds no file
YieldsNothing(response) ==
    response.ok /\ (response.files = <<>> \/ Len(response.files[1]) = 0)

\* the answer to the query of strategy 4 holds no file that passes the
\* post-hoc filter
YieldsNothingTranscriptLike(response) ==
    /\ response.ok
    /\ response.files # <<>> =>
           \A i \in 1..Len(response.files[1]) : ~IsTranscriptLike(response.files[1][i])

\* every stage of the cascade yields nothing
EveryStageYieldsNothing ==
    /\ YieldsNothing(args.drive.list.folder)
    /\ YieldsNothing(args.drive.list.name)
    /\ YieldsNothing(args.drive.list.global)
    /\ YieldsNothingTranscriptLike(args.drive.list.broad)

\* C6: with an empty candidate pool the ranker returns null, getTranscript
\* (the single-query one and the four-strategy one) returns null, and
\* getAllTranscripts returns the empty list; none of them raises an error.
C6_EmptyPoolIsAbsence ==
    /\ (Returned("selectBestTranscriptFile") /\ Len(args.files) = 0) => ret = <<>>
    /\ (Returned("getTranscript") /\ YieldsNothing(args.drive.list.single)) =>
           ret.kind = "null"
    /\ (Returned("getTranscriptByStrategies") /\ EveryStageYieldsNothing) =>
           ret.kind = "null"
    /\ (Returned("getAllTranscripts") /\ EveryStageYieldsNothing) =>
           (ret.kind = "list" /\ Len(ret.value) = 0)

\* C6 witness: the four-strategy getTranscript has asked all four queries,
\* the last one answered by files that the filter rejects, and returns null.
C6_Witness ==
    /\ Returned("getTranscriptByStrategies")
    /\ EveryStageYieldsNothing
    /\ ret.queries = <<"meeting", "folder", "name", "global", "broad">>
    /\ Len(FilesOf(args.drive.list.broad)) > 0
    /\ ret.kind = "null"

\* the relevance score of a file for the meeting file of the request
RelevanceOf(file) == calculateRelevanceScore1440(file, args.drive.meeting, args.now)

\* the entries returned are those of the files of ret.ranked, in order
EntriesFollowRanked ==
    /\ Len(ret.value) = Len(ret.ranked)
    /\ \A i \in 1..Len(ret.ranked) :
           /\ ret.value[i].id = OrEmpty(ret.ranked[i].id)
           /\ ret.value[i].name = OrEmpty(ret.ranked[i].name)
           /\ ret.value[i].createdTime = ret.ranked[i].createdTime

\* C7 as stated: the list of getAllTranscripts is in non-increasing order of
\* the ranker's relevance score and its first entry is the file that
\* selectBestTranscriptFile chooses from the same pool and meeting file.
C7_OrderedByRelevance ==
    (Returned("getAllTranscripts") /\ ret.kind = "list") =>
        /\ EntriesFollowRanked
        /\ \A i, j \in 1..Len(ret.ranked) :
               i < j => RelevanceOf(ret.ranked[i]) >= RelevanceOf(ret.ranked[j])
        /\ Len(ret.ranked) > 0 =>
               <<ret.ranked[1]>> =
                   selectBestTranscriptFile(ret.unique, args.drive.meeting, args.now)

\* the distance of a file's creation time (0 when it has none) to the
\* creation time of the meeting file
DistanceToMeeting(file) ==
    IF file.createdTime = NoTime
    THEN Abs(0 - args.drive.meeting[1].createdTime)
    ELSE Abs(file.createdTime - args.drive.meeting[1].createdTime)

\* the position in ret.unique of the file with the id of file
PositionInUnique(file) ==
    CHOOSE k \in 1..Len(ret.unique) : ret.unique[k].id = file.id

\* the meeting file is known and has a creation time
MeetingTimeKnown ==
    args.drive.meeting # <<>> /\ args.drive.meeting[1].createdTime # NoTime

\* C7 amended: the list of getAllTranscripts holds the first 10 files of the
\* deduplicated pool put, when the meeting file has a creation time, in
\* non-decreasing order of the distance between their creation time and the
\* meeting file's (files equally far keep their pool order), and left in pool
\* order otherwise; the relevance score takes no part.
C7_OrderedByTimeDistance ==
    (Returned("getAllTranscripts") /\ ret.kind = "list") =>
        /\ EntriesFollowRanked
        /\ Len(ret.ranked) = Min(MaxTranscripts, Len(ret.unique))
        /\ \A i \in 1..Len(ret.ranked) :
               \E k \in 1..Len(ret.unique) : ret.ranked[i] = ret.unique[k]
        /\ MeetingTimeKnown =>
               \A i, j \in 1..Len(ret.ranked) :
                   i < j =>
                       \/ DistanceToMeeting(ret.ranked[i]) < DistanceToMeeting(ret.ranked[j])
                       \/ /\ DistanceToMeeting(ret.ranked[i]) = DistanceToMeeting(ret.ranked[j])
                          /\ PositionInUnique(ret.ranked[i]) < PositionInUnique(ret.ranked[j])
        /\ ~MeetingTimeKnown =>
               \A i \in 1..Len(ret.ranked) : ret.ranked[i] = ret.unique[i]

\* C7 witness: the sort has moved the file nearest to the meeting file to the
\* front although a file behind it has the higher relevance score.
C7_Witness ==
    /\ Returned("getAllTranscripts")
    /\ ret.kind = "list"
    /\ MeetingTimeKnown
    /\ Len(ret.ranked) >= 2
    /\ ret.ranked[1] # ret.unique[1]
    /\ RelevanceOf(ret.ranked[1]) < RelevanceOf(ret.ranked[2])

\* the positions of the pool that hold the first record of their id
FirstOccurrences(pool) ==
    {i \in 1..Len(pool) : \A j \in 1..(i - 1) : pool[j].id # pool[i].id}

\* C8: after deduplication no two files share an id, the record kept for an
\* id is the first of the concatenated pool with that id, and the kept records
\* are in pool order.
C8_DeduplicationKeepsFirst ==
    (Returned("getAllTranscripts") /\ ret.kind = "list") =>
        /\ \A i, j \in 1..Len(ret.unique) :
               i # j => ret.unique[i].id # ret.unique[j].id
        /\ Len(ret.unique) = Cardinality(FirstOccurrences(ret.pool))
        /\ \A i \in FirstOccurrences(ret.pool) :
               ret.unique[Cardinality({j \in FirstOccurrences(ret.pool) : j <= i})]
                   = ret.pool[i]

\* C8 witness: the pool of three files or more holds two records of one id
\* with different fields, and the first of the two is the one kept.
C8_Witness ==
    /\ Returned("getAllTranscripts")
    /\ ret.kind = "list"
    /\ Len(ret.pool) >= 3
    /\ \E i, j \in 1..Len(ret.pool) :
           /\ i < j
           /\ ret.pool[i].id = ret.pool[j].id
           /\ ret.pool[i] # ret.pool[j]
           /\ \E k \in 1..Len(ret.unique) : ret.unique[k] = ret.pool[i]
           /\ \A k \in 1..Len(ret.unique) : ret.unique[k] # ret.pool[j]

\* every list query of the request is answered
ListsAnswered ==
    \A q \in DOMAIN args.drive.list : args.drive.list[q].ok

\* the content call made for file rejects
FetchRejects(file) ==
    IF file.mimeType = GoogleDoc THEN ~args.drive.export.ok ELSE ~args.drive.media.ok

\* the Transcript carries the metadata of file
CarriesMetadataOf(transcript, file) ==
    /\ transcript.id = OrEmpty(file.id)
    /\ transcript.name = OrEmpty(file.name)
    /\ transcript.createdTime = file.createdTime

\* a getTranscript whose content call rejects returns the metadata of the
\* selected file with content ""
TranscriptFetchFailsSoft ==
    (/\ Returned("getTranscript") \/ Returned("getTranscriptByStrategies")
     /\ ListsAnswered) =>
        /\ ret.kind # "error"
        /\ (ret.selected # <<>> /\ FetchRejects(ret.selected[1])) =>
               /\ ret.kind = "value"
               /\ CarriesMetadataOf(ret.value[1], ret.selected[1])
               /\ ret.value[1].content = ""

\* getAllTranscripts has made a content call for its first entry and the
\* call has rejected
FirstEntryFetchRejected ==
    /\ Len(ret.ranked) > 0
    /\ Truthy(ret.ranked[1].id)
    /\ FetchRejects(ret.ranked[1])

\* C9 as stated: when the content call for the selected document rejects, no
\* error propagates and the result carries the document's metadata with the
\* empty text as content, in getTranscript and in getAllTranscripts.
C9_FetchFailureGivesEmptyText ==
    /\ TranscriptFetchFailsSoft
    /\ (Returned("getAllTranscripts") /\ ListsAnswered) =>
           /\ ret.kind = "list"
           /\ FirstEntryFetchRejected =>
                  /\ CarriesMetadataOf(ret.value[1], ret.ranked[1])
                  /\ ret.value[1].content = ""

\* C9 amended: when the content call for the selected document rejects, no
\* error propagates and the result carries the document's metadata; its
\* content is the empty text in getTranscript, and is absent (undefined) in
\* the first entry of getAllTranscripts.
C9_FetchFailureIsSoft ==
    /\ TranscriptFetchFailsSoft
    /\ (Returned("getAllTranscripts") /\ ListsAnswered) =>
           /\ ret.kind = "list"
           /\ FirstEntryFetchRejected =>
                  /\ CarriesMetadataOf(ret.value[1], ret.ranked[1])
                  /\ ret.value[1].content = Undefined

\* C9 witness: getTranscript has selected a document whose content call
\* rejects and returns it with content "".
C9_Witness ==
    /\ Returned("getTranscript")
    /\ ret.selected # <<>>
    /\ FetchRejects(ret.selected[1])
    /\ ret.kind = "value"
    /\ ret.value[1].id = ret.selected[1].id
    /\ ret.value[1].content = ""

\* ------------------------------------------------------------------------
\* Claims about the meeting list (SpecMeetings)
\* ------------------------------------------------------------------------

\* the files of the Drive answer of the request
AnsweredFiles == IF args.drive.files # <<>> THEN args.drive.files[1] ELSE <<>>

\* the positions of the files that start a meeting: the key is set and no
\* earlier file has it
MeetingStarts ==
    {i \in 1..Len(AnsweredFiles) :
        /\ Truthy(meetingKey(AnsweredFiles[i]))
        /\ \A j \in 1..(i - 1) : meetingKey(AnsweredFiles[j]) # meetingKey(AnsweredFiles[i])}

\* C10: when the calendar call fails during the enrichment, getMeetings still
\* returns the full meeting list: the same meetings in the same order, none
\* of them with a calendar event.
C10_CalendarFailureDegrades ==
    (Returned("getMeetings") /\ args.drive.ok /\ ~args.calendar.ok) =>
        /\ ret.kind = "list"
        /\ Len(ret.value) = Cardinality(MeetingStarts)
        /\ ret.value = ret.meetings
        /\ \A i \in 1..Len(ret.value) : ret.value[i].calendarEvent = <<>>
        /\ \A i \in MeetingStarts :
               ret.value[Cardinality({j \in MeetingStarts : j <= i})].id
                   = OrEmpty(AnsweredFiles[i].id)

\* C10 witness: the calendar call has failed and getMeetings returns two
\* meetings, the first with a meeting code, without calendar events.
C10_Witness ==
    /\ Returned("getMeetings")
    /\ ~args.calendar.ok
    /\ ret.kind = "list"
    /\ Len(ret.value) = 2
    /\ Truthy(ret.value[1].meetingCode)
    /\ \A i \in 1..2 : ret.value[i].calendarEvent = <<>>

\* ------------------------------------------------------------------------
\* Claims about the Transcript Entry Parser (SpecParser)
\* ------------------------------------------------------------------------

\* the text of the request ("" when there is none)
ParsedText == IF args.content = Undefined THEN "" ELSE args.content

\* the positions of the first character that is not white space of each line
\* of the text that has one: one position per non-blank line, in line order
LineInkStarts ==
    {i \in 1..Len(ParsedText) :
        /\ CharAt(ParsedText, i) \notin WhiteSpace
        /\ \A j \in 1..(i - 1) :
               (\A m \in j..(i - 1) : CharAt(ParsedText, m) # "\n")
                   => CharAt(ParsedText, j) \in WhiteSpace}

\* the k-th least number of a set of numbers
KthOf(S, k) == CHOOSE i \in S : Cardinality({j \in S : j <= i}) = k

\* C11: parseTranscriptContent returns exactly one entry per non-blank line of
\* the text, in line order (each entry's timestamp, or else its text, is read
\* at the start of its line), no entry for an empty text, and the two entries
\* {text "Hello there", timestamp "10:15"}, {text "No timestamp line"} for the
\* text "[10:15] Hello there\nNo timestamp line\n".
C11_OneEntryPerNonBlankLine ==
    Returned("parseTranscriptContent") =>
        /\ Len(ret) = Cardinality(LineInkStarts)
        /\ \A k \in 1..Len(ret) :
               IF ret[k].timestamp = Undefined
               THEN /\ ret[k].text # ""
                    /\ StartsAt(ParsedText, KthOf(LineInkStarts, k), ret[k].text)
               ELSE \/ StartsAt(ParsedText, KthOf(LineInkStarts, k), ret[k].timestamp)
                    \/ StartsAt(ParsedText, KthOf(LineInkStarts, k),
                                "[" \o ret[k].timestamp)
        /\ args.content = ExampleContent =>
               ret = <<[text |-> "Hello there", timestamp |-> "10:15"],
                       [text |-> "No timestamp line", timestamp |-> Undefined]>>

\* C11 witness: the text of the example has been parsed into its two entries.
C11_Witness ==
    /\ Returned("parseTranscriptContent")
    /\ args.content = ExampleContent
    /\ Len(ret) = 2
    /\ ret[1].timestamp = "10:15"
    /\ ret[2].text = "No timestamp line"

\* ------------------------------------------------------------------------
\* Claims about the Code Extractor and the Name Normalizer (SpecNames)
\* ------------------------------------------------------------------------

\* t is a three-segment hyphenated code: 3 letters, 4 letters, 3 letters
IsCodeToken(t) ==
    /\ Len(t) = 12
    /\ \A k \in 1..12 :
           IF k \in {4, 9} THEN CharAt(t, k) = "-" ELSE CharAt(t, k) \in Letters

\* the positions of the file name of the request where a code is written
CodePositions ==
    {i \in 1..(Len(args.fileName) - 11) :
        IsCodeToken(SubSeq(args.fileName, i, i + 11))}

\* the file name of the request matches neither the meet.google.com/ pattern
\* nor the "Meeting <code>" pattern
NoUrlNoLabel ==
    /\ \A c \in LowerLetters \cup {"-"} :
           ~includes(toLowerCase(args.fileName), "meet.google.com/" \o c)
    /\ \A i \in 1..Len(args.fileName), k \in 1..Len(args.fileName) :
           ~ /\ StartsAt(toLowerCase(args.fileName), i, "meeting")
             /\ i + 7 + k <= Len(args.fileName)
             /\ \A m \in (i + 7)..(i + 6 + k) : CharAt(args.fileName, m) \in WhiteSpace
             /\ CharAt(toLowerCase(args.fileName), i + 7 + k)
                    \in LowerLetters \cup Digits \cup {"-"}

\* C12: for a file name that contains a three-segment hyphenated code,
\* extractMeetingCode returns exactly that token as it is written in the name
\* (the first one when there are several); for a file name that matches none
\* of the three patterns it returns undefined.
C12_CodeTokenOrNothing ==
    Returned("extractMeetingCode") =>
        /\ CodePositions # {} =>
               /\ IsCodeToken(ret)
               /\ \E i \in CodePositions :
                      /\ ret = SubSeq(args.fileName, i, i + 11)
                      /\ \A j \in CodePositions : i <= j
        /\ (CodePositions = {} /\ NoUrlNoLabel) => ret = Undefined

\* C12 witness: a name that also matches the other two patterns has given its
\* code.
C12_Witness ==
    /\ Returned("extractMeetingCode")
    /\ args.fileName = "Meeting meet.google.com/abc-defg-hij"
    /\ ret = "abc-defg-hij"

\* C13: extractMeetingBaseName is idempotent: normalizing the name it
\* returned returns that name again.
C13_NormalizerIdempotent ==
    Returned("extractMeetingBaseName") => extractMeetingBaseName(ret) = ret

\* C13: a name with an extension and white space behind it has been
\* normalized to a name that still ends with the extension, which a second
\* normalization removes.
C13_ExtensionLeft ==
    /\ Returned("extractMeetingBaseName")
    /\ args.fileName = "Weekly Sync.txt "
    /\ ret = "Weekly Sync.txt"
    /\ extractMeetingBaseName(ret) = "Weekly Sync"

\* ------------------------------------------------------------------------
\* Claims about the meeting list (SpecMeetings), continued
\* ------------------------------------------------------------------------

\* the meeting key of a file: its meeting code, else its creation time, else
\* its identifier
KeyOfFile(file) ==
    IF extractMeetingCode(OrEmpty(file.name)) \notin {Undefined, ""}
    THEN extractMeetingCode(OrEmpty(file.name))
    ELSE IF file.createdTime # NoTime THEN ToString(file.createdTime) \o ":00Z"
    ELSE file.id

\* the positions of the answered files that have a key no earlier file has
FirstOfKey ==
    {i \in 1..Len(AnsweredFiles) :
        /\ KeyOfFile(AnsweredFiles[i]) \notin {Undefined, ""}
        /\ \A j \in 1..(i - 1) : KeyOfFile(AnsweredFiles[j]) # KeyOfFile(AnsweredFiles[i])}

\* C14: the list of getMeetings has one meeting per distinct meeting key (the
\* code of the file, else its creation time, else its identifier), made from
\* the first file with that key, in the order of the files.
C14_OneMeetingPerKey ==
    (Returned("getMeetings") /\ ret.kind = "list") =>
        /\ Len(ret.value) = Cardinality(FirstOfKey)
        /\ \A k \in 1..Len(ret.value) :
               /\ ret.value[k].id = OrEmpty(AnsweredFiles[KthOf(FirstOfKey, k)].id)
               /\ ret.value[k].createdTime = AnsweredFiles[KthOf(FirstOfKey, k)].createdTime
               /\ ret.value[k].meetingCode
                      = extractMeetingCode(OrEmpty(AnsweredFiles[KthOf(FirstOfKey, k)].name))

\* C14 witness: of two files with the same key, the first one is the only
\* meeting of the list (same code, or no code and the same creation time).
C14_Witness ==
    /\ Returned("getMeetings")
    /\ ret.kind = "list"
    /\ Len(AnsweredFiles) = 2
    /\ AnsweredFiles[1].id # AnsweredFiles[2].id
    /\ KeyOfFile(AnsweredFiles[1]) = KeyOfFile(AnsweredFiles[2])
    /\ KeyOfFile(AnsweredFiles[1]) = ToString(AnsweredFiles[1].createdTime) \o ":00Z"
    /\ Len(ret.value) = 1
    /\ ret.value[1].id = AnsweredFiles[1].id

\* the events the matcher is given: the answered events that have a Meet link
MeetEventsAnswered ==
    SelectSeq(IF args.calendar.items # <<>> THEN args.calendar.items[1] ELSE <<>>,
              hasGoogleMeetLink)

\* C15: the enrichment returns one record per meeting, in the same order; each
\* record carries no or one calendar event and is otherwise the meeting it was
\* made from (id, name, createdTime, modifiedTime, size, meetingCode); it
\* carries the event the matcher returned, and none when the matcher
\* returned none.
C15_EnrichmentKeepsMeetings ==
    (Returned("getMeetings") /\ ret.kind = "list") =>
        /\ Len(ret.value) = Len(ret.meetings)
        /\ \A i \in 1..Len(ret.value) :
               /\ Len(ret.value[i].calendarEvent) <= 1
               /\ [ret.value[i] EXCEPT !.calendarEvent = <<>>] = ret.meetings[i]
               /\ IF findMatchingCalendarEvent(ret.meetings[i], MeetEventsAnswered) = 0
                  THEN ret.value[i].calendarEvent = <<>>
                  ELSE /\ ret.value[i].calendarEvent # <<>>
                       /\ ret.value[i].calendarEvent[1].eventId
                              = MeetEventsAnswered[
                                    findMatchingCalendarEvent(ret.meetings[i],
                                                              MeetEventsAnswered)].id

\* C15 witness: of two meetings, the first has been given a calendar event with
\* another title than its name and the second none.
C15_Witness ==
    /\ Returned("getMeetings")
    /\ ret.kind = "list"
    /\ args.calendar.ok
    /\ Len(ret.value) = 2
    /\ ret.value[1].calendarEvent # <<>>
    /\ ret.value[1].calendarEvent[1].summary # ret.value[1].name
    /\ ret.value[2].calendarEvent = <<>>

\* ------------------------------------------------------------------------
\* Claims about repeated invocations of the ranker (SpecRuns)
\* ------------------------------------------------------------------------

\* the recency bonus of a file at time t, times 1440: 10 days less the age of
\* the file, 0 from 10 days on and for a file with no creation time
RecencyAt(file, t) ==
    IF file.createdTime = NoTime \/ t - file.createdTime >= Days(10)
    THEN 0
    ELSE Days(10) - (t - file.createdTime)

\* C16 as stated: two invocations of the ranker on the same snapshot and the
\* same anchor return the same scores and the same selected candidate,
\* whenever they run.
C16_SameResultWhenever ==
    op = "rankSnapshot" =>
        \A i, j \in 1..Len(ret) :
            ret[i].scores = ret[j].scores /\ ret[i].selected = ret[j].selected

\* C16 amended: two invocations of the ranker on the same snapshot and the
\* same anchor that run at the same time return the same scores and the same
\* selected candidate; the scores of invocations at different times differ by
\* the recency bonus only, which is computed from the time of the invocation.
C16_SameResultAtSameTime ==
    op = "rankSnapshot" =>
        \A i, j \in 1..Len(ret) :
            /\ \A k \in 1..Len(args.files) :
                   ret[i].scores[k] - RecencyAt(args.files[k], ret[i].now)
                       = ret[j].scores[k] - RecencyAt(args.files[k], ret[j].now)
            /\ ret[i].now = ret[j].now =>
                   (ret[i].scores = ret[j].scores /\ ret[i].selected = ret[j].selected)

\* C16 witness: the second invocation, at a later time, has selected another
\* candidate of the same snapshot than the first.
C16_Witness ==
    /\ op = "rankSnapshot"
    /\ Len(ret) = 2
    /\ ret[1].now < ret[2].now
    /\ ret[1].selected # <<>>
    /\ ret[1].selected # ret[2].selected

\* ------------------------------------------------------------------------
\* Claims about the search cascades (SpecTranscripts)
\* ------------------------------------------------------------------------

\* the stages of the cascade, in their order
StageOrder == <<"folder", "name", "global", "broad">>

\* the query of stage q has been made
Asked(q) == \E i \in 1..Len(ret.queries) : ret.queries[i] = q

\* the files the query of stage q is answered with
PoolOf(q) ==
    IF args.drive.list[q].ok /\ args.drive.list[q].files # <<>>
    THEN args.drive.list[q].files[1]
    ELSE <<>>

\* C17: in the four-strategy getTranscript the first stage whose query returns
\* a non-empty pool decides: once a stage (folder, name, global) has returned
\* a non-empty pool, no later stage is queried and the file selected is one of
\* that pool.
C17_FirstNonEmptyStageDecides ==
    Returned("getTranscriptByStrategies") =>
        \A a \in 1..3 :
            (Asked(StageOrder[a]) /\ Len(PoolOf(StageOrder[a])) > 0) =>
                /\ \A b \in (a + 1)..4 : ~Asked(StageOrder[b])
                /\ ret.selected # <<>>
                /\ \E k \in 1..Len(PoolOf(StageOrder[a])) :
                       PoolOf(StageOrder[a])[k] = ret.selected[1]

\* C17: the meeting file has no creation time, the name query has returned a
\* non-empty pool, the global and the broad query have been made all the
\* same, and the result is null.
C17_NamePoolDiscarded ==
    /\ Returned("getTranscriptByStrategies")
    /\ args.drive.meeting # <<>>
    /\ args.drive.meeting[1].createdTime = NoTime
    /\ Len(PoolOf("name")) > 0
    /\ ret.queries = <<"meeting", "folder", "name", "global", "broad">>
    /\ ret.kind = "null"

\* the files of the stages (a) and (b) that were queried, (a) first
FolderThenNamePool ==
    (IF Asked("folder") THEN PoolOf("folder") ELSE <<>>)
    \o (IF Asked("name") THEN PoolOf("name") ELSE <<>>)

\* C18: in getAllTranscripts the pool is the files of stage (a) followed by
\* those of stage (b); stage (c) is queried only when that pool is empty and
\* its files are then the whole pool; stage (d) is queried only when the pool
\* is still empty and its filtered files are then the whole pool.
C18_StagesReplaceThePool ==
    (Returned("getAllTranscripts") /\ ret.kind = "list") =>
        /\ Asked("global") <=> Len(FolderThenNamePool) = 0
        /\ Asked("broad") <=> (Len(FolderThenNamePool) = 0 /\ Len(PoolOf("global")) = 0)
        /\ ret.pool =
               IF Len(FolderThenNamePool) > 0 THEN FolderThenNamePool
               ELSE IF Len(PoolOf("global")) > 0 THEN PoolOf("global")
               ELSE SelectSeq(PoolOf("broad"), IsTranscriptLike)

\* C18 witness: the stages (a) and (b) have each returned a file and the pool
\* is these two files, although the stages (c) and (d) have files to answer
\* with; they were not queried.
C18_Witness ==
    /\ Returned("getAllTranscripts")
    /\ ret.kind = "list"
    /\ Len(PoolOf("folder")) = 1
    /\ Len(PoolOf("name")) = 1
    /\ Len(PoolOf("global")) > 0
    /\ Len(PoolOf("broad")) > 0
    /\ ret.pool = PoolOf("folder") \o PoolOf("name")
    /\ ~Asked("global")
    /\ ~Asked("broad")

\* ------------------------------------------------------------------------
\* Claims about the score of one event (SpecScore; points are times 12)
\* ------------------------------------------------------------------------

\* the lower-cased normalized name of the meeting and summary of the event
CleanNameLower == toLowerCase(extractMeetingBaseName(args.meeting.name))

SummaryLower == toLowerCase(args.event.summary)

\* C19: for an event with a summary and a meeting with a non-empty normalized
\* name, exactly one name contribution is added to the score: 80 when the
\* lower-cased names are equal, otherwise 60 when either contains the other,
\* otherwise 10 times the number of common words; a missing summary or an
\* empty normalized name contributes 0.
C19_OneNameContribution ==
    Returned("matchScore") =>
        /\ ret.matchScore = ret.code + ret.time + ret.name + ret.link
        /\ IF args.event.summary \in {Undefined, ""} \/ CleanNameLower = ""
           THEN ret.name = 0
           ELSE IF SummaryLower = CleanNameLower
           THEN ret.name = 80 * 12
           ELSE IF includes(SummaryLower, CleanNameLower)
                   \/ includes(CleanNameLower, SummaryLower)
           THEN ret.name = 60 * 12
           ELSE ret.name = 10 * 12 * countCommonWords(CleanNameLower, SummaryLower)

\* C19 witness: a summary that is part of the name and shares a word with it
\* has given 60 points, not 70.
C19_Witness ==
    /\ Returned("matchScore")
    /\ args.meeting.name = "Weekly Sync 2025/08/25 13:58 JST~Recording"
    /\ args.event.summary = "Sync"
    /\ countCommonWords(CleanNameLower, SummaryLower) = 1
    /\ ret.name = 60 * 12

\* the minutes between the start t of an event and the creation of the meeting
MinutesApart(t) ==
    IF t >= args.meeting.createdTime
    THEN t - args.meeting.createdTime
    ELSE args.meeting.createdTime - t

\* C20: with hoursDiff the time between the creation of the meeting and the
\* start of the event, the time contribution is max(0, 50 - 5 * hoursDiff)
\* when hoursDiff <= 6, and 0 when hoursDiff > 6 or when the event has no
\* start date-time (or the meeting no creation time); it is within 0..50 and
\* an event that starts farther from the meeting never gets more.
C20_TimeContribution ==
    Returned("matchScore") =>
        /\ IF args.event.start = NoTime \/ args.meeting.createdTime = NoTime
           THEN ret.time = 0
           ELSE IF MinutesApart(args.event.start) <= 6 * 60
           THEN ret.time = (IF 50 * 12 - MinutesApart(args.event.start) > 0
                            THEN 50 * 12 - MinutesApart(args.event.start)
                            ELSE 0)
           ELSE ret.time = 0
        /\ ret.time \in 0..(50 * 12)
        /\ \A t \in ScoreStarts \ {NoTime} :
               (/\ args.event.start # NoTime
                /\ args.meeting.createdTime # NoTime
                /\ MinutesApart(t) >= MinutesApart(args.event.start)) =>
                   TimePoints12(args.meeting, [args.event EXCEPT !.start = t]) <= ret.time

\* C20 witness: an event that starts 6 hours after the meeting has been given
\* 20 points.
C20_Witness ==
    /\ Returned("matchScore")
    /\ args.meeting.createdTime # NoTime
    /\ args.event.start = args.meeting.createdTime + 6 * 60
    /\ ret.time = 20 * 12

\* ------------------------------------------------------------------------
\* Claims about the relevance score (SpecRuns; points are times 1440)
\* ------------------------------------------------------------------------

\* the lower-cased name of a candidate
LowerNameOf(file) == toLowerCase(IF file.name = Undefined THEN "" ELSE file.name)

\* the points a candidate earns by itself
OwnPointsOf(file) ==
    (IF includes(LowerNameOf(file), "transcript") THEN 10 ELSE 0)
    + (IF includes(LowerNameOf(file), JaTranscript) THEN 10 ELSE 0)
    + (IF includes(LowerNameOf(file), "meeting") THEN 5 ELSE 0)
    + (IF file.mimeType = GoogleDoc THEN 3
       ELSE IF file.mimeType = PlainText THEN 2 ELSE 0)

\* the candidate and the anchor share a parent folder
SharesFolderWith(file, anchor) ==
    \E p \in {file.parents[i] : i \in 1..Len(file.parents)} :
        p \in {anchor.parents[j] : j \in 1..Len(anchor.parents)}

\* the name of the candidate contains the (non-empty) base name of the anchor
ContainsBaseNameOf(file, anchor) ==
    /\ anchor.name \notin {Undefined, ""}
    /\ extractBaseName(anchor.name) # ""
    /\ includes(LowerNameOf(file), toLowerCase(extractBaseName(anchor.name)))

\* the candidate and the anchor were created on the same day
SameDayAs(file, anchor) ==
    /\ file.createdTime # NoTime
    /\ anchor.createdTime # NoTime
    /\ file.createdTime \div Days(1) = anchor.createdTime \div Days(1)

\* the points a candidate earns from the anchor of the request
AnchorPointsOf(file) ==
    IF args.meetingFile = <<>> THEN 0
    ELSE (IF SharesFolderWith(file, args.meetingFile[1]) THEN 15 ELSE 0)
         + (IF ContainsBaseNameOf(file, args.meetingFile[1]) THEN 8 ELSE 0)
         + (IF SameDayAs(file, args.meetingFile[1]) THEN 5 ELSE 0)

\* C21: apart from the recency bonus, the relevance score of a candidate is
\* the sum of 10 for each of the two transcript keywords in its name, 5 for
\* the meeting keyword, 3 for a Google document or 2 for plain text and, only
\* when an anchor is known, 15 for a shared parent folder, 8 for a name that
\* contains the anchor's base name and 5 for the same day of creation.
C21_ScoreIsSumOfSignals ==
    op = "rankSnapshot" =>
        \A k \in 1..Len(args.files) :
            LET points == OwnPointsOf(args.files[k]) + AnchorPointsOf(args.files[k])
            IN  \A i \in 1..Len(ret) :
                    ret[i].scores[k] - ret[i].recency[k] = points * Days(1)

\* C21 witness: a text file with both transcript keywords, in the folder of
\* the anchor, with its base name and of its day has 20 + 2 + 15 + 8 + 5
\* points apart from the recency bonus, and 22 when no anchor is known.
C21_Witness ==
    /\ op = "rankSnapshot"
    /\ Len(ret) > 0
    /\ Len(args.files) > 0
    /\ args.files[1].name = "Standup {mojiokoshi} Transcript notes.txt"
    /\ IF args.meetingFile = <<>>
       THEN FALSE
       ELSE ret[1].scores[1] - ret[1].recency[1] = 50 * Days(1)

\* C22: for a candidate with a creation time the recency bonus is
\* max(0, 10 - daysSinceCreation): 0 for a candidate created 10 days or more
\* before the invocation, and never negative.
C22_RecencyBonus ==
    op = "rankSnapshot" =>
        \A i \in 1..Len(ret), k \in 1..Len(args.files) :
            /\ ret[i].recency[k] >= 0
            /\ args.files[k].createdTime # NoTime =>
                   /\ ret[i].recency[k]
                          = (IF Days(10) - (ret[i].now - args.files[k].createdTime) > 0
                             THEN Days(10) - (ret[i].now - args.files[k].createdTime)
                             ELSE 0)
                   /\ ret[i].now - args.files[k].createdTime >= Days(10) =>
                          ret[i].recency[k] = 0

\* C22 witness: a candidate created 1 day before the first invocation has a
\* bonus of 9 there and, 9 days later, of 0.
C22_Witness ==
    /\ op = "rankSnapshot"
    /\ Len(ret) = 2
    /\ Len(args.files) > 0
    /\ ret[1].now - args.files[1].createdTime = Days(1)
    /\ ret[1].recency[1] = 9 * Days(1)
    /\ ret[2].now - args.files[1].createdTime = Days(10)
    /\ ret[2].recency[1] = 0

\* ------------------------------------------------------------------------
\* Claims about the classification of the lines (SpecParser)
\* ------------------------------------------------------------------------

\* the non-blank lines of the text of the request
NonBlankLines ==
    SelectSeq(SplitOnFrom(ParsedText, 1, "", "\n"), LAMBDA line : trim(line) # "")

\* the line opens a square bracket
OpensBracket(line) == StartsAt(line, 1, "[")

\* the position of the timestamp token of the line and its length: H:MM or
\* H:MM:SS, the longer one when both are there; 0 when there is none
TokenStart(line) == IF OpensBracket(line) THEN 2 ELSE 1

TokenLen(line) ==
    IF TimestampLen(line, TokenStart(line)) = 0 THEN 0
    ELSE TimestampLen(line, TokenStart(line))
         + SecondsLen(line, TokenStart(line) + TimestampLen(line, TokenStart(line)))

\* what follows the token and, for a token in brackets, the closing bracket
TextBehindToken(line) ==
    From(line, TokenStart(line) + TokenLen(line) + (IF OpensBracket(line) THEN 1 ELSE 0))

\* the line starts with a timestamp token, in square brackets or bare,
\* followed by remaining text
IsTimestampedLine(line) ==
    /\ TokenLen(line) > 0
    /\ OpensBracket(line) => StartsAt(line, TokenStart(line) + TokenLen(line), "]")
    /\ trim(TextBehindToken(line)) # ""

\* C23: a non-blank line that starts with a timestamp token H:MM or H:MM:SS,
\* in square brackets or bare, followed by remaining text gives an entry with
\* that token as timestamp and the trimmed remaining text as text; every
\* other non-blank line gives an entry with the trimmed line as text and no
\* timestamp.
C23_TimestampClassification ==
    (Returned("parseTranscriptContent") /\ Len(ret) = Len(NonBlankLines)) =>
        \A k \in 1..Len(ret) :
            IF IsTimestampedLine(NonBlankLines[k])
            THEN /\ ret[k].timestamp
                       = SubSeq(NonBlankLines[k], TokenStart(NonBlankLines[k]),
                                TokenStart(NonBlankLines[k]) + TokenLen(NonBlankLines[k]) - 1)
                 /\ ret[k].text = trim(TextBehindToken(NonBlankLines[k]))
            ELSE /\ ret[k].timestamp = Undefined
                 /\ ret[k].text = trim(NonBlankLines[k])

\* C23: in a text with the line breaks "\r\n", the line "[9:05]\t tabbed \r"
\* has given an entry with no timestamp and the token in its text.
C23_CarriageReturnLine ==
    /\ Returned("parseTranscriptContent")
    /\ args.content = " 10:15 indented\r\n\r\n[9:05]\t tabbed \r\n"
    /\ Len(ret) = 2
    /\ ret[2].timestamp = Undefined
    /\ ret[2].text = "[9:05]\t tabbed"

\* ------------------------------------------------------------------------
\* Claims about the order of the patterns of the Code Extractor (SpecNames)
\* ------------------------------------------------------------------------

\* the capture of the second pattern at its first match in the file name of
\* the request: the letters and hyphens behind "meet.google.com/"
UrlCapture ==
    Run(args.fileName, Least(UrlCodeStarts(args.fileName)) + 16, Letters \cup {"-"})

\* the capture of the third pattern at its first match: the letters, digits
\* and hyphens behind "Meeting" and the white space that follows it
LabelCapture ==
    Run(args.fileName,
        Least(LabelCodeStarts(args.fileName)) + 7
            + RunLen(args.fileName, Least(LabelCodeStarts(args.fileName)) + 7, WhiteSpace),
        Letters \cup Digits \cup {"-"})

\* C24: the result of extractMeetingCode is the capture of the first pattern
\* that matches the file name, in the order hyphenated code, meet.google.com/
\* suffix, "Meeting <code>" label; the capture of a later pattern is not
\* returned when an earlier pattern matches.
C24_FirstPatternWins ==
    Returned("extractMeetingCode") =>
        IF CodePositions # {}
        THEN ret = SubSeq(args.fileName, Least(CodePositions), Least(CodePositions) + 11)
        ELSE IF UrlCodeStarts(args.fileName) # {}
        THEN ret = UrlCapture
        ELSE IF LabelCodeStarts(args.fileName) # {}
        THEN ret = LabelCapture
        ELSE ret = Undefined

\* C24 witness: a name that the second and the third pattern match with
\* different captures has given the capture of the second.
C24_Witness ==
    /\ Returned("extractMeetingCode")
    /\ CodePositions = {}
    /\ UrlCodeStarts(args.fileName) # {}
    /\ LabelCodeStarts(args.fileName) # {}
    /\ LabelCapture = "meet"
    /\ ret = "ab-cd"

\* ------------------------------------------------------------------------
\* C25
\* ------------------------------------------------------------------------
\* the words a string is split into that are longer than one character and
\* not made of digits and separators only
MeaningfulWordsOf(str) == SelectSeq(split(str, WordSeparators), IsMeaningfulWord)

\* one word contains the other
OneContainsTheOther(w1, w2) == includes(w1, w2) \/ includes(w2, w1)

\* the first three characters of the two words are equal
SameFirstThree(w1, w2) ==
    Len(w1) >= 3 /\ Len(w2) >= 3 /\ SubSeq(w1, 1, 3) = SubSeq(w2, 1, 3)

\* both words are longer than two characters and one contains the first
\* three characters of the other, wherever they stand in it
HoldsFirstThree(w1, w2) ==
    /\ Len(w1) > 2
    /\ Len(w2) > 2
    /\ \/ \E i \in 1..(Len(w1) - 2) : SubSeq(w1, i, i + 2) = SubSeq(w2, 1, 3)
       \/ \E i \in 1..(Len(w2) - 2) : SubSeq(w2, i, i + 2) = SubSeq(w1, 1, 3)

\* C25 as stated: countCommonWords(str1, str2) is the number of meaningful
\* words of str1 that are common with a meaningful word of str2, two words
\* being common exactly when one contains the other or their first three
\* characters are equal.
C25_CommonWordCount ==
    Returned("countCommonWords") =>
        LET w1 == MeaningfulWordsOf(args.str1)
            w2 == MeaningfulWordsOf(args.str2)
        IN  ret = Cardinality({i \in 1..Len(w1) :
                      \E j \in 1..Len(w2) :
                          \/ OneContainsTheOther(w1[i], w2[j])
                          \/ SameFirstThree(w1[i], w2[j])})

\* C25 amended: countCommonWords(str1, str2) is a natural number, the number
\* of meaningful words of str1 that are common with a meaningful word of
\* str2, two words being common exactly when one contains the other or, both
\* being longer than two characters, one contains the first three characters
\* of the other at any position.
C25_CommonWordCountAnywhere ==
    Returned("countCommonWords") =>
        LET w1 == MeaningfulWordsOf(args.str1)
            w2 == MeaningfulWordsOf(args.str2)
        IN  /\ ret \in Nat
            /\ ret = Cardinality({i \in 1..Len(w1) :
                         \E j \in 1..Len(w2) :
                             \/ OneContainsTheOther(w1[i], w2[j])
                             \/ HoldsFirstThree(w1[i], w2[j])})

\* "presyn" holds the first three characters of "sync" in its middle
C25_Witness ==
    /\ Returned("countCommonWords")
    /\ args.str1 = "presyn 42"
    /\ args.str2 = "sync"
    /\ ret = 1

\* ------------------------------------------------------------------------
\* C26
\* ------------------------------------------------------------------------
\* C26: the two scoring functions complete on events, candidates, meetings
\* and anchors with any of their optional fields missing; a missing field
\* contributes no points and the score is a natural number (of twelfths of a
\* point for events, of 1440ths for candidates).
C26_MissingFieldsScoreNothing ==
    /\ Returned("matchScore") =>
           /\ ret.matchScore \in Nat
           /\ ret.matchScore = ret.code + ret.time + ret.name + ret.link
           /\ args.event.description = Undefined => ret.code = 0
           /\ args.event.summary = Undefined => ret.name = 0
           /\ args.event.start = NoTime => ret.time = 0
           /\ args.meeting.createdTime = NoTime => ret.time = 0
           /\ args.event.conferenceData = <<>> /\ args.event.description = Undefined
                  => ret.link = 0
    /\ Returned("calculateRelevanceScore") =>
           /\ ret.score \in Nat
           /\ ret.score = (ret.keyword + ret.type + ret.anchor) * Days(1) + ret.recency
           /\ args.file.name = Undefined => ret.keyword = 0 /\ ret.anchor \in {0, 5, 15, 20}
           /\ args.file.mimeType = Undefined => ret.type = 0
           /\ args.file.createdTime = NoTime =>
                  ret.recency = 0 /\ ret.anchor \in {0, 8, 15, 23}
           /\ args.file.parents = <<>> => ret.anchor \in {0, 5, 8, 13}
           /\ args.meetingFile = <<>> => ret.anchor = 0
           /\ args.meetingFile # <<>> =>
                  /\ args.meetingFile[1].createdTime = NoTime => ret.anchor \in {0, 8, 15, 23}
                  /\ args.meetingFile[1].name = Undefined => ret.anchor \in {0, 5, 15, 20}
                  /\ args.meetingFile[1].parents = <<>> => ret.anchor \in {0, 5, 8, 13}

\* C26 witness: an event with nothing but a conference link scored for a
\* meeting without a creation time: 10 points
C26_Witness ==
    /\ Returned("matchScore")
    /\ args.event.summary = Undefined
    /\ args.event.description = Undefined
    /\ args.event.start = NoTime
    /\ args.meeting.createdTime = NoTime
    /\ ret.matchScore = 10 * 12

\* ------------------------------------------------------------------------
\* C27
\* ------------------------------------------------------------------------
\* the event has a video entry point at meet.google.com or a description that
\* names meet.google.com
CarriesMeetLink(event) ==
    \/ /\ event.conferenceData # <<>>
       /\ \E k \in 1..Len(event.conferenceData[1].entryPoints) :
              /\ event.conferenceData[1].entryPoints[k].entryPointType = "video"
              /\ includes(event.conferenceData[1].entryPoints[k].uri, "meet.google.com")
    \/ /\ event.description # Undefined
       /\ includes(event.description, "meet.google.com")

\* the events of the calendar's answer
AnsweredEvents ==
    IF args.calendar.items = <<>> THEN {}
    ELSE {args.calendar.items[1][k] : k \in 1..Len(args.calendar.items[1])}

\* C27: the event attached to a meeting is one of the answered events that
\* carry a Meet link; an answered event without one is attached to no meeting,
\* whatever its description, name and start.
C27_AttachedEventsCarryMeetLink ==
    (Returned("getMeetings") /\ ret.kind = "list") =>
        \A i \in 1..Len(ret.value) :
            ret.value[i].calendarEvent # <<>> =>
                /\ \E e \in AnsweredEvents :
                       e.id = ret.value[i].calendarEvent[1].eventId /\ CarriesMeetLink(e)
                /\ \A e \in AnsweredEvents :
                       ~CarriesMeetLink(e) => e.id # ret.value[i].calendarEvent[1].eventId

\* C27 witness: the only answered event has no Meet link; it has the code of
\* the first meeting in its description and the name and the start of the
\* second, so that the matcher would return it for either, and neither is
\* given a calendar event.
C27_Witness ==
    /\ Returned("getMeetings")
    /\ ret.kind = "list"
    /\ args.calendar.ok
    /\ AnsweredEvents # {}
    /\ \A e \in AnsweredEvents : ~CarriesMeetLink(e)
    /\ Len(ret.value) = 2
    /\ ret.meetings[1].meetingCode = TheCode
    /\ ret.meetings[2].meetingCode = Undefined
    /\ \A i \in 1..2 :
           /\ findMatchingCalendarEvent(ret.meetings[i], args.calendar.items[1]) # 0
           /\ ret.value[i].calendarEvent = <<>>

\* ------------------------------------------------------------------------
\* C28
\* ------------------------------------------------------------------------
\* the positions of the calls made that fetch the content of a document
ContentFetches == {k \in 1..Len(ret.queries) : ret.queries[k] \in {"export", "media"}}

\* C28: the list returned by getAllTranscripts has at most 10 entries, no two
\* of them with the same id; the content of at most one document has been
\* fetched, that of the first entry, and no other entry has a content.
C28_ListAllBounds ==
    (Returned("getAllTranscripts") /\ ret.kind = "list") =>
        /\ Len(ret.value) <= 10
        /\ \A i, j \in 1..Len(ret.value) : i # j => ret.value[i].id # ret.value[j].id
        /\ Cardinality(ContentFetches) <= 1
        /\ ContentFetches # {} =>
               /\ Len(ret.value) > 0
               /\ ret.queries[Len(ret.queries)] = ContentCall(ret.ranked[1])
        /\ ContentFetches = {} => \A i \in 1..Len(ret.value) : ret.value[i].content = Undefined
        /\ \A i \in 2..Len(ret.value) : ret.value[i].content = Undefined

\* C28 witness: of eleven files of distinct ids ten are returned; the first
\* has its content and the nine others none.
C28_Witness ==
    /\ Returned("getAllTranscripts")
    /\ ret.kind = "list"
    /\ Len(ret.unique) = 11
    /\ Len(ret.value) = 10
    /\ Cardinality(ContentFetches) = 1
    /\ ret.value[1].content = "[10:15] Hello there"
    /\ \A i \in 2..10 : ret.value[i].content = Undefined

\* ------------------------------------------------------------------------
\* C29
\* ------------------------------------------------------------------------
\* C29 as stated: once a fetch of /api/meetings has completed successfully
\* the component shows the meeting list or the empty-list message and not the
\* error view, also when an earlier fetch had failed.
C29_SuccessShowsTheList ==
    (op = "MeetingList" /\ pc = "idle" /\ ret.last = "ok") =>
        View(ret) \in {"list", "empty"}

\* the retry after a failed fetch has succeeded, the meetings are stored and
\* the error view is shown with the message of the failed fetch
C29_ErrorOutlivesRetry ==
    /\ op = "MeetingList"
    /\ pc = "idle"
    /\ ret.fetches = 2
    /\ ret.last = "ok"
    /\ ret.meetings = <<"m1", "m2">>
    /\ ret.error = "Failed to fetch meetings"
    /\ View(ret) = "error"

\* ------------------------------------------------------------------------
\* C30
\* ------------------------------------------------------------------------
\* the request carries a session with an access token
HasToken == args.session # <<>> /\ args.session[1].accessToken \notin {Undefined, ""}

\* C30: a request without a session access token gets 401 and the engine is
\* not called; otherwise the engine is called once, null from getTranscript
\* or an empty list from getAllTranscripts gets 404, an error of the engine
\* gets 500, and only a non-empty result gets the success response, which
\* carries exactly one transcript: the one returned or the first of the list.
C30_RouteOutcomes ==
    Returned("GET") =>
        /\ ret.status \in {200, 401, 404, 500}
        /\ ~HasToken => ret.status = 401 /\ ret.engine = <<>> /\ ret.result = <<>>
        /\ HasToken =>
               /\ Len(ret.engine) = 1
               /\ Len(ret.result) = 1
               /\ ret.engine[1] = (IF args.transcriptId \in {Undefined, ""}
                                   THEN "getAllTranscripts" ELSE "getTranscript")
               /\ ret.result[1].kind = "error" <=> ret.status = 500
               /\ (\/ ret.result[1].kind = "null"
                   \/ (ret.result[1].kind = "list" /\ ret.result[1].value = <<>>))
                      <=> ret.status = 404
               /\ (\/ ret.result[1].kind = "value"
                   \/ (ret.result[1].kind = "list" /\ ret.result[1].value # <<>>))
                      <=> ret.status = 200
        /\ ret.status = 200 <=> Len(ret.transcript) = 1
        /\ ret.status # 200 => ret.transcript = <<>>
        /\ ret.status = 200 => ret.transcript[1] = ret.result[1].value[1]

\* C30 witness: without a transcriptId getAllTranscripts returned two
\* transcripts and the response is a success with the first of them.
C30_Witness ==
    /\ Returned("GET")
    /\ HasToken
    /\ args.transcriptId = Undefined
    /\ ret.result[1].kind = "list"
    /\ Len(ret.result[1].value) = 2
    /\ ret.status = 200
    /\ ret.transcript = <<ret.result[1].value[1]>>

=============================================================================
